---- MODULE Spec2Model ----
(***************************************************************************)
(* Model of the tic-tac-toe lobby/match server (src/server.py).            *)
(*                                                                         *)
(* One worker thread per accepted connection runs client_thread: a loop    *)
(* that reads one message and handles it, followed by a finally block.     *)
(* A handler is one action up to the point where it releases a lock and    *)
(* goes on to take another: LIST, JOIN, LEAVE, MOVE and the finally block  *)
(* run in several steps, and other workers run in between.  Where clients  *)
(* may drop their connection (lossy), the peer of a connection may close   *)
(* its socket at any moment: every send may raise and every read may       *)
(* return end-of-stream.                                                   *)
(***************************************************************************)
EXTENDS Integers, Sequences, FiniteSets, TLC

\* ------------------------------------------------------------------ bounds
MaxGames == 1       \* Game objects in existence at a time
MaxMoves == 2       \* accepted moves per match, where a run bounds them
MaxMarks == 5       \* marks on a 4x4 board handed to check_winner_3_in_row

Conns == {1, 2, 3}  \* connection handles
GameIds == 1..(MaxGames + 1)   \* the ids a Game object can have
NoGame == 0         \* current_game is None / a falsy game_id

\* ------------------------------------------------------- program constants
EMPTY == " "
target == 3
MARKS_BY_COUNT == [n \in {2, 3} |->
                     IF n = 2 THEN <<"X", "O">> ELSE <<"X", "O", "Delta">>]
\* the scan without the down-left diagonal
directions_no_down_left == << <<0, 1>>, <<1, 0>>, <<1, 1>> >>
directions == << <<0, 1>>, <<1, 0>>, <<1, 1>>, <<1, -1>> >>

\* ----------------------------------------------------------- input domains
\* A display name is a sequence of characters; " " is whitespace.  A "name"
\* field that is missing, null, false or 0 is replaced by "" (`or ""`) and is
\* the input <<>>; one that is another value which is not a string (a number,
\* true, a list, an object) is the HELLO with isstr = FALSE.
NameInputs == { <<>>, <<" ">>, <<"A">>, <<" ", "A">>, <<"B">>, <<"B", " ">> }
PlayersInputs == 1..4
\* the game_id of a JOIN that can be a key of server_state.games: 0 stands
\* for none or a falsy one, the others for the ids of matches and for an id
\* of no match.  A game_id that cannot be a key (a list, an object) is the
\* JOIN with hashable = FALSE.
GameIdInputs == 0..(MaxGames + 1)

VARIABLES
  pc,              \* pc[c]: "new" | "loop" | "list" (inside list_games) |
                   \* "join" (between get_game and the lock) | "leave",
                   \* "move", "final" (LEAVE, MOVE, the finally block after
                   \* their `with g.lock:` block) | "release" (the finally
                   \* block after its remove_game test) | "close" (the
                   \* finally block after its names_lock block, before
                   \* safe_close) | "exit" | "closed"
  name_registered, \* client_thread local, per connection
  client_name,     \* client_thread local; <<>> stands for None
  current_game,    \* client_thread local: a game id, or NoGame
  player,          \* client_thread local: the mark of its Player, or "None"
  active_names,    \* server_state.active_names
  games,           \* keys of server_state.games
  game,            \* the Game objects in existence, by id: those in the
                   \* registry or referenced by a worker
  sent,            \* the sends attempted by the last handler, in order
  last,            \* which handler ran last, and for which connection
  lossy,           \* environment: clients may drop their connection in this
                   \* run, so that a send may raise and a read may hit
                   \* end-of-stream
  ends,            \* ends[c][g]: END messages sent so far to c for the
                   \* match g in existence
  listing,         \* the worker inside list_games (it holds games_lock),
                   \* the ids that passed its status check and the player
                   \* counts it has read, or NoListing
  pending,         \* the remove_game calls that wait for games_lock
  writes,          \* the writes the last handler made to its match, in
                   \* program order, and how far into them list_games has
                   \* been seen to run
  trace,           \* the lock acquisitions, lock releases and sends of the
                   \* last handler, in program order
  begun,           \* begun[c]: the sends and the trace of the steps made so
                   \* far of the LEAVE, MOVE or finally block worker c is
                   \* in, once it has left the `with g.lock:` block, or NoPart
  todo,            \* todo[c]: the lock acquisitions and releases worker c
                   \* has still to make in the handler it is running
  holder,          \* holder[l]: the worker that holds lock l, or NoWorker
  looked,          \* looked[c]: the Game that get_game returned to the JOIN
                   \* of worker c, which has not taken its lock yet, or NoGame
  probe,           \* a board handed to check_winner_3_in_row and the
                   \* result it returned, or NoProbe
  BUFFERS,         \* the module-level dict BUFFERS: id(conn) -> bytes
  conn_id,         \* conn_id[c]: id(conn) of the socket object of
                   \* connection c, or NoId when it has none
  wire,            \* wire[c]: the bytes conn.recv has returned to worker c
  handled          \* handled[c]: the lines recv_line has returned to worker c

vars == <<pc, name_registered, client_name, current_game, player,
          active_names, games, game, sent, last, lossy, ends, listing,
          pending, writes, trace, begun, todo, holder, looked, probe,
          BUFFERS, conn_id, wire, handled>>

\* the variables of the receive buffers
bufvars == <<BUFFERS, conn_id, wire, handled>>

\* the variables the handlers, run one at a time, leave alone
sidevars == <<todo, holder, looked, probe, BUFFERS, conn_id, wire, handled>>

\* the variables of the handlers
progvars == <<pc, name_registered, client_name, current_game, player,
              active_names, games, game, sent, last, lossy, ends, listing,
              pending, writes, trace, begun>>

\* ------------------------------------------------------------ pure helpers
RECURSIVE lstrip(_)
lstrip(s) == IF s # <<>> /\ Head(s) = " " THEN lstrip(Tail(s)) ELSE s

RECURSIVE rstrip(_)
rstrip(s) == IF s # <<>> /\ s[Len(s)] = " "
             THEN rstrip(SubSeq(s, 1, Len(s) - 1)) ELSE s

strip(s) == rstrip(lstrip(s))

in_bounds(n, r, c) == 0 <= r /\ r < n /\ 0 <= c /\ c < n

\* the inner `for k in range(1, target)` loop for one direction
line_ok(board, n, r, c, d) ==
  \A k \in 1..(target - 1) :
     LET rr == r + directions[d][1] * k
         cc == c + directions[d][2] * k
     IN in_bounds(n, rr, cc) /\ board[rr][cc] = board[r][c]

cell_wins(board, n, r, c) ==
  board[r][c] # EMPTY /\ \E d \in 1..Len(directions) : line_ok(board, n, r, c, d)

\* row-major scan; the first cell that starts a line decides the result
check_winner_3_in_row(board) ==
  LET n == Cardinality(DOMAIN board)
      hits == { i \in 0..(n * n - 1) : cell_wins(board, n, i \div n, i % n) }
  IN IF hits = {} THEN "None"
     ELSE LET i == CHOOSE x \in hits : \A y \in hits : x <= y
          IN board[i \div n][i % n]

board_full(board) ==
  \A r \in DOMAIN board : \A c \in DOMAIN board[r] : board[r][c] # EMPTY

filled(board) ==
  Cardinality({ rc \in (DOMAIN board) \X (DOMAIN board) : board[rc[1]][rc[2]] # EMPTY })

\* Game.__init__ / __post_init__
NewGame(game_id, max_players, creator) ==
  [ game_id     |-> game_id,
    max_players |-> max_players,
    board_size  |-> max_players + 1,
    creator     |-> creator,
    players     |-> <<>>,
    board       |-> [r \in 0..max_players |-> [c \in 0..max_players |-> EMPTY]],
    turn_index  |-> 0,
    status      |-> "WAITING" ]

\* players[turn_index].mark; Python raises IndexError for an index out of range
turn_mark(g) ==
  IF g.players = <<>> THEN "None"
  ELSE IF g.turn_index < Len(g.players) THEN g.players[g.turn_index + 1].mark
  ELSE "IndexError"

snapshot(g) ==
  [ id          |-> g.game_id,
    creator     |-> g.creator,
    players     |-> [i \in 1..Len(g.players) |->
                       [name |-> g.players[i].name, mark |-> g.players[i].mark]],
    max_players |-> g.max_players,
    board_size  |-> g.board_size,
    board       |-> g.board,
    turn        |-> turn_mark(g),
    status      |-> g.status ]

PlayerConns(g) == { g.players[i].conn : i \in 1..Len(g.players) }

\* the connections of g's player list, in order, whose send raises (D)
dead_of(g, D) ==
  LET failed == SelectSeq(g.players, LAMBDA p : p.conn \in D)
  IN [i \in 1..Len(failed) |-> failed[i].conn]

\* ------------------------------------------------------------------- sends
\* one send_json call
Send(to, body) == [to |-> to, body |-> body]

\* err(conn, msg, hint), without the hint
ErrMsg(msg) == [type |-> "ERR", msg |-> msg]
OkMsg(msg) == [type |-> "OK", msg |-> msg]

\* Game.broadcast_collect_dead: one send per player, in list order
broadcast_sends(g, body) ==
  [i \in 1..Len(g.players) |-> Send(g.players[i].conn, body)]

\* Game.broadcast_except: a send that raises is ignored
broadcast_except_sends(g, body, except_conn) ==
  SelectSeq(broadcast_sends(g, body), LAMBDA m : m.to # except_conn)

\* ------------------------------------------------------------ lock events
\* The locks: names_lock, games_lock and conn_lock of TicTacToeServer, and
\* "lock", the lock of the one match a handler works on.
Acq(l) == [e |-> "acq", l |-> l]
Rel(l) == [e |-> "rel", l |-> l]
Snd == [e |-> "send", l |-> "-"]
\* a read or write of players, board, turn_index or status of the match
Fld == [e |-> "field", l |-> "lock"]

\* A write of players or status of the match g, or the remove_game call for
\* it: what list_games, which reads these fields without the match's lock,
\* finds from then on (n: len(g.players); reg: the match is in the
\* registry).  The writer holds the match's lock.
Wr(g) == [e |-> "write", l |-> "lock", g |-> g.game_id, n |-> Len(g.players),
          status |-> g.status, reg |-> g.game_id \in games]
Unreg(g) == [e |-> "write", l |-> "games_lock", g |-> g.game_id,
             n |-> Len(g.players), status |-> g.status, reg |-> FALSE]

\* the writes of a handler's events, and its lock events, sends and accesses
Writes(evs) == SelectSeq(evs, LAMBDA ev : ev.e = "write")
Trace(evs) == SelectSeq(evs, LAMBDA ev : ev.e # "write")

\* `with l:` around the events of its body
With(l, body) == <<Acq(l)>> \o body \o <<Rel(l)>>

\* one send event for each send of ss
Sends(ss) == [i \in 1..Len(ss) |-> Snd]

\* the locks of the process: names_lock, games_lock and conn_lock of the
\* TicTacToeServer, and the lock of each Game
Locks ==
  { <<"names_lock", NoGame>>, <<"games_lock", NoGame>>, <<"conn_lock", NoGame>> }
    \cup { <<"lock", m>> : m \in GameIds }

\* no worker holds the lock
NoWorker == 0

\* no board has been handed to check_winner_3_in_row (at: the cells of the
\* board decided so far, in row-major order)
NoProbe == [board |-> <<>>, winner |-> "None", at |-> 0]

\* the connection has no socket object
NoId == 0

\* the values id(conn) takes: the address of the socket object, which a
\* later socket object can have once this one is freed
Ids == {1, 2}

\* the client has sent nothing (all: the bytes it has sent; rcvd: how many
\* of them conn.recv has returned)
NoBytes == [all |-> <<>>, rcvd |-> 0]

\* the locks list_games takes: games_lock only
list_games_locks == With("games_lock", <<>>)

\* list_games as the handlers run it: status and players of every registered
\* match (gs) are read inside the games_lock block
list_games_trace(gs) == With("games_lock", [i \in 1..Cardinality(gs) |-> Fld])

\* ------------------------------------------------------- match operations
\* the name remove_player_from_game returns; <<>> stands for None
left_name_of(g, conn) ==
  LET idx == { i \in 1..Len(g.players) : g.players[i].conn = conn }
  IN IF idx = {} THEN <<>>
     ELSE g.players[CHOOSE i \in idx : \A j \in idx : j <= i].name

\* `left_name or "player"`
left_name_or_player(g, conn) ==
  IF left_name_of(g, conn) = <<>> THEN <<"player">> ELSE left_name_of(g, conn)

\* remove_player_from_game without the re-indexing of turn_index
remove_player_keep_turn(g, conn) ==
  [g EXCEPT !.players = SelectSeq(g.players, LAMBDA p : p.conn # conn)]

remove_player_from_game(g, conn) ==
  LET new_players == SelectSeq(g.players, LAMBDA p : p.conn # conn)
  IN [g EXCEPT !.players = new_players,
               !.turn_index = IF new_players # <<>>
                              THEN g.turn_index % Len(new_players)
                              ELSE 0]

\* `for dc in dead: remove_player_from_game(g, dc)`
RECURSIVE remove_dead(_, _)
remove_dead(g, dead) ==
  IF dead = <<>> THEN g
  ELSE remove_dead(remove_player_from_game(g, Head(dead)), Tail(dead))

EndMsg(g, reason_msg) ==
  [type   |-> "END",
   result |-> [winner |-> "None", msg |-> reason_msg],
   state  |-> snapshot(g)]

\* Both operators return [g, sends, removed, evs]: the match afterwards, the
\* sends made, whether server_state.remove_game was called for the match, and
\* the lock events and sends in program order.
\* D is the set of connections for which the sends of the END broadcast raise.
RECURSIVE close_game_for_all(_, _, _)

\* a step that changes nothing but the match
NoEffect(g) == [g |-> g, sends |-> <<>>, removed |-> FALSE, evs |-> <<>>]

\* the effect r, after the events evs
preceded(evs, r) ==
  [g |-> r.g, sends |-> r.sends, removed |-> r.removed, evs |-> evs \o r.evs]

\* the writes of `for dc in dead: remove_player_from_game(g, dc)`
removal_writes(g, dead) ==
  [i \in 1..Len(dead) |-> Wr(remove_dead(g, SubSeq(dead, 1, i)))]

\* `if len(g.players) == 0: server_state.remove_game(g.game_id)`, called
\* with the match lock held
remove_if_empty(r) ==
  [g |-> r.g, sends |-> r.sends,
   removed |-> r.removed \/ Len(r.g.players) = 0,
   evs |-> r.evs \o (IF Len(r.g.players) = 0
                     THEN With("games_lock", <<Unreg(r.g)>>) ELSE <<>>)]

\* the END broadcast bc followed by the handling h of its dead connections
after_broadcast(bc, h) ==
  [g |-> h.g, sends |-> bc \o h.sends, removed |-> h.removed,
   evs |-> Sends(bc) \o h.evs]

\* "any disconnect closes the game for everyone"
close_unless_ending(g, already_ending, D) ==
  IF ~already_ending /\ Len(g.players) >= 1 /\ g.status # "FINISHED"
  THEN close_game_for_all(g, <<"A player disconnected. Game ended.">>, D)
  ELSE NoEffect(g)

handle_dead_conns_after_send(g, dead, already_ending, D) ==
  IF dead = <<>> THEN NoEffect(g)
  ELSE remove_if_empty(preceded(removal_writes(g, dead),
                                close_unless_ending(remove_dead(g, dead),
                                                    already_ending, D)))

\* the END broadcast of a match that has been set FINISHED
end_broadcast(g, reason_msg, D) ==
  after_broadcast(broadcast_sends(g, EndMsg(g, reason_msg)),
                  handle_dead_conns_after_send(g, dead_of(g, D), TRUE, {}))

close_game_for_all(g, reason_msg, D) ==
  preceded(<<Wr([g EXCEPT !.status = "FINISHED"])>>,
           end_broadcast([g EXCEPT !.status = "FINISHED"], reason_msg, D))

\* depart without the status test: the match is closed for the others
\* whenever a player remains
depart_any_status(g, conn, verb, D) ==
  LET left_name == left_name_or_player(g, conn)
      g1 == remove_player_from_game(g, conn)
      r == IF Len(g1.players) >= 1
           THEN close_game_for_all(g1, <<"Player ", left_name, verb>>, D)
           ELSE [g |-> [g1 EXCEPT !.status = "FINISHED"], sends |-> <<>>,
                 removed |-> FALSE,
                 evs |-> <<Wr([g1 EXCEPT !.status = "FINISHED"])>>]
  IN [g |-> r.g, sends |-> r.sends, removed |-> r.removed,
      evs |-> With("lock", <<Fld, Wr(g1)>> \o r.evs)]

\* the `with g.lock:` block shared by LEAVE and the finally block: remove
\* the player, then close the match for the others or mark it FINISHED
\* (removed: remove_game was called inside the block, by
\* handle_dead_conns_after_send)
depart(g, conn, verb, D) ==
  LET left_name == left_name_or_player(g, conn)
      g1 == remove_player_from_game(g, conn)
      r == IF g1.status \in {"WAITING", "RUNNING"} /\ Len(g1.players) >= 1
           THEN close_game_for_all(g1, <<"Player ", left_name, verb>>, D)
           ELSE [g |-> [g1 EXCEPT !.status = "FINISHED"], sends |-> <<>>,
                 removed |-> FALSE,
                 evs |-> <<Wr([g1 EXCEPT !.status = "FINISHED"])>>]
  IN [g |-> r.g, sends |-> r.sends, removed |-> r.removed,
      evs |-> With("lock", <<Fld, Wr(g1)>> \o r.evs)]

\* ------------------------------------------------------------ bookkeeping
CountEnds(ss, c, gid) ==
  Cardinality({ i \in 1..Len(ss) :
                  /\ ss[i].to = c
                  /\ ss[i].body.type = "END"
                  /\ ss[i].body.state.id = gid })

\* `last` and `sent` log one handler at a time: the next handler runs once
\* the log has been read and cleared (Flush)
NoOp == [op |-> "NONE", conn |-> 0]
Idle == last = NoOp

\* the outcomes of one send (TRUE: it raises), and the sets of players of g
\* whose send raises in one broadcast
MayRaise == IF lossy THEN BOOLEAN ELSE {FALSE}
DeadSets(g) == IF lossy THEN SUBSET PlayerConns(g) ELSE {{}}

\* no worker is inside list_games
NoListing == [conn |-> 0, passed |-> {}, players |-> <<>>]

\* the Game objects the worker inside list_games still refers to
listed == listing.passed

\* no handler's writes are on record
NoWrites == [conn |-> 0, seq |-> <<>>, at |-> 0]

\* the first remove_game call among the writes ws, if there is one
FirstUnreg(ws) ==
  { i \in 1..Len(ws) :
      /\ ws[i].l = "games_lock"
      /\ \A j \in 1..(i - 1) : ws[j].l # "games_lock" }

\* remove_game takes games_lock, which a worker inside list_games holds:
\* the call of worker c that waits for it, if the events evs hold one
Deferred(c, evs) ==
  IF listing.conn = 0 THEN {}
  ELSE { [g |-> Writes(evs)[i].g, conn |-> c] : i \in FirstUnreg(Writes(evs)) }

\* worker c is inside a remove_game call that waits for games_lock
Removing(c) == \E e \in pending : e.conn = c

\* the lock of match gid is held by a worker that waits for games_lock:
\* the remove_game calls that wait were made inside a `with g.lock:` block
Stuck(gid) == \E e \in pending : e.g = gid

\* the worker is in no handler that has left its `with g.lock:` block
NoPart == [sent |-> <<>>, trace |-> <<>>]

\* what every handler records when it ends: its sends and its trace, those
\* of its `with g.lock:` block included when that was a step of its own, and
\* the worker's next position (an exception that escapes the handler leaves
\* the loop)
Record(c, op, sends, raised, evs) ==
  /\ lossy' = lossy
  /\ listing' = listing
  /\ pending' = pending \cup Deferred(c, evs)
  /\ trace' = begun[c].trace \o Trace(evs)
  /\ writes' = [conn |-> c, seq |-> Writes(evs), at |-> 0]
  /\ UNCHANGED sidevars
  /\ sent' = begun[c].sent \o sends
  /\ last' = [op |-> op, conn |-> c]
  /\ pc' = [pc EXCEPT ![c] = IF raised THEN "exit" ELSE "loop"]
  /\ begun' = [begun EXCEPT ![c] = NoPart]

\* what LEAVE, MOVE and the finally block record at the end of a step that
\* is not their last, where the worker (then at `at`) holds no lock and has
\* the rest of the handler to run
Part(c, op, at, sends, evs) ==
  /\ lossy' = lossy
  /\ listing' = listing
  /\ pending' = pending \cup Deferred(c, evs)
  /\ trace' = Trace(evs)
  /\ writes' = [conn |-> c, seq |-> Writes(evs), at |-> 0]
  /\ UNCHANGED sidevars
  /\ sent' = sends
  /\ last' = [op |-> op, conn |-> c]
  /\ pc' = [pc EXCEPT ![c] = at]
  /\ begun' = [begun EXCEPT ![c] = [sent |-> begun[c].sent \o sends,
                                    trace |-> begun[c].trace \o Trace(evs)]]

\* `if len(g.players) == 0` (MOVE: `g.status == "FINISHED" and ...`), read
\* after the `with g.lock:` block without the match's lock
emptied(gid, finished_only) ==
  /\ Len(game[gid].players) = 0
  /\ finished_only => game[gid].status = "FINISHED"

\* the events of that test and of the remove_game call it guards
after_block(gone) == <<Fld>> \o (IF gone THEN With("games_lock", <<>>) ELSE <<>>)

\* err(conn, msg, hint); continue.  The send may raise.  before: the lock
\* events of the handler up to the err call; held: the locks it holds there,
\* outermost first, released on the way out
Reject(c, op, msg, before, held) ==
  /\ \E f \in MayRaise :
       Record(c, op, <<Send(c, ErrMsg(msg))>>, f,
              before \o <<Snd>> \o [i \in 1..Len(held) |-> Rel(held[Len(held) + 1 - i])])
  /\ UNCHANGED <<name_registered, client_name, current_game, player,
                 active_names, games, game, ends>>

\* an exception raised before any send of the handler
Raise(c, op, evs) ==
  /\ Record(c, op, <<>>, TRUE, evs)
  /\ UNCHANGED <<name_registered, client_name, current_game, player,
                 active_names, games, game, ends>>

\* The match fields and the registry after a `with g.lock:` block (removed:
\* server_state.remove_game was called inside the block, which waits while a
\* worker is inside list_games: see Record and Unregister).
SetGame(gid, g, removed, sends) ==
  /\ games' = IF removed /\ listing.conn = 0 THEN games \ {gid} ELSE games
  /\ game' = [game EXCEPT ![gid] = g]
  /\ ends' = [x \in Conns |-> [k \in GameIds |->
                IF k \notin DOMAIN game THEN 0
                ELSE IF ends[x][k] + CountEnds(sends, x, k) > 2 THEN 2
                ELSE ends[x][k] + CountEnds(sends, x, k)]]

\* A Game object that is neither in the registry gs nor referenced by a
\* worker (its current_game, the g of a JOIN between get_game and the lock,
\* the iteration of list_games) is garbage
InUse(k, gs) ==
  \/ k \in gs
  \/ k \in listed
  \/ \E x \in Conns : current_game[x] = k
  \/ \E x \in Conns : pc[x] = "join" /\ looked[x] = k

\* the Game objects in existence and their END counts once garbage has left
Collect(gs) ==
  /\ game' = [k \in { k \in DOMAIN game : InUse(k, gs) } |-> game[k]]
  /\ ends' = [x \in Conns |-> [k \in GameIds |->
                IF k \in DOMAIN game /\ InUse(k, gs) THEN ends[x][k] ELSE 0]]

\* ------------------------------------------------------------------- Init
Init ==
  /\ pc = [c \in Conns |-> "new"]
  /\ name_registered = [c \in Conns |-> FALSE]
  /\ client_name = [c \in Conns |-> <<>>]
  /\ current_game = [c \in Conns |-> NoGame]
  /\ player = [c \in Conns |-> "None"]
  /\ active_names = {}
  /\ games = {}
  /\ game = <<>>
  /\ sent = <<>>
  /\ last = NoOp
  /\ lossy = TRUE
  /\ ends = [c \in Conns |-> [gid \in GameIds |-> 0]]
  /\ listing = NoListing
  /\ pending = {}
  /\ writes = NoWrites
  /\ trace = <<>>
  /\ begun = [c \in Conns |-> NoPart]
  /\ todo = [c \in Conns |-> <<>>]
  /\ holder = [l \in Locks |-> NoWorker]
  /\ looked = [c \in Conns |-> NoGame]
  /\ probe = NoProbe
  /\ BUFFERS = <<>>
  /\ conn_id = [c \in Conns |-> NoId]
  /\ wire = [c \in Conns |-> NoBytes]
  /\ handled = [c \in Conns |-> <<>>]

\* ---------------------------------------------------------------- actions
\* main: accept, start client_thread; the thread sends WELCOME
Accept(c) ==
  /\ Idle
  /\ pc[c] = "new"
  /\ \E f \in MayRaise : Record(c, "ACCEPT", <<Send(c, [type |-> "WELCOME", msg |-> "Connected to server."])>>, f, <<Snd>>)
  /\ UNCHANGED <<name_registered, client_name, current_game, player,
                 active_names, games, game, ends>>

\* recv_json returns None (the peer closed) or recv raises: leave the loop
RecvEOF(c) ==
  /\ Idle
  /\ lossy
  /\ pc[c] = "loop"
  /\ ~Removing(c)
  /\ Raise(c, "EOF", <<>>)

\* mutant: the reservation check is skipped
name_taken_never(proposed) == FALSE

\* `proposed in server_state.active_names`
name_taken(proposed) == proposed \in active_names

\* isstr = FALSE: the "name" field is truthy and not a string, so that
\* `.strip()` raises
Hello(c, nm, isstr) ==
  /\ Idle
  /\ pc[c] = "loop"
  /\ ~Removing(c)
  /\ LET proposed == strip(nm) IN
     IF name_registered[c] THEN Reject(c, "HELLO", "Name already set.", <<>>, <<>>)
     ELSE IF ~isstr THEN Raise(c, "HELLO", <<>>)
     ELSE IF proposed = <<>> THEN Reject(c, "HELLO", "Name cannot be empty.", <<>>, <<>>)
     ELSE IF name_taken(proposed)
          THEN Reject(c, "HELLO", "Name already exists.",
                      <<Acq("names_lock")>>, <<"names_lock">>)
     ELSE /\ active_names' = active_names \cup {proposed}
          /\ client_name' = [client_name EXCEPT ![c] = proposed]
          /\ name_registered' = [name_registered EXCEPT ![c] = TRUE]
          /\ \E f \in MayRaise :
               Record(c, "HELLO", <<Send(c, OkMsg(<<"Hello ", proposed, ".">>))>>, f,
                      With("names_lock", <<>>) \o <<Snd>>)
          /\ UNCHANGED <<current_game, player, games, game, ends>>

\* list_games reads the fields of a match without taking the match's lock:
\* each of its reads may fall between two writes of a handler that holds
\* that lock.  The handlers run one at a time here, so such a read is made
\* after the handler, at a read point: point p is after the p-th write of
\* the last handler and before the next one; point 0 is the present, once
\* the handler's log is cleared.  The reads of list_games come in order;
\* the handler's own worker is not inside list_games during its handler;
\* and while the handler waits inside remove_game its later points are not
\* reached.
UnregPoint ==
  IF FirstUnreg(writes.seq) = {} THEN Len(writes.seq) + 1
  ELSE CHOOSE i \in FirstUnreg(writes.seq) : TRUE

\* a handler writes no more often than this: JOIN appends, sets the status,
\* removes up to every player, closes the match, removes up to every player
\* again and calls remove_game twice
Points == 0..(2 * Cardinality(Conns) + 5)

ReadPoints(c) ==
  IF Idle THEN {0}
  ELSE { p \in 1..(Len(writes.seq) - 1) :
           /\ p >= writes.at
           /\ c # writes.conn
           /\ Removing(writes.conn) => p < UnregPoint }

\* point p is inside the last handler
Inside(p) == p > 0

\* len(g.players) and g.status of match gid as found at point p
seen(gid, p) ==
  IF Inside(p) /\ writes.seq[p].g = gid
  THEN [n |-> writes.seq[p].n, status |-> writes.seq[p].status]
  ELSE [n |-> Len(game[gid].players), status |-> game[gid].status]

\* server_state.games as found at point p
registered(p) ==
  IF Inside(p) /\ writes.seq[p].reg THEN games \cup {writes.seq[p].g} ELSE games

\* the status check of list_games: the registered matches that pass it
list_passed(p) == { gid \in registered(p) : seen(gid, p).status = "WAITING" }

\* the entries list_games builds for the matches that passed its status test:
\* len(g.players) as read before (players), g.status as read at point p
list_entries(passed, players, p) ==
  [gid \in passed |->
     [id |-> gid, players |-> players[gid],
      max |-> game[gid].max_players, status |-> seen(gid, p).status,
      creator |-> game[gid].creator]]

\* what a step of list_games that sends nothing leaves on record
ListStep(c, p) ==
  /\ last' = IF p = 0 THEN last ELSE [op |-> "LISTING", conn |-> c]
  /\ sent' = <<>>
  /\ trace' = <<>>
  /\ writes' = [writes EXCEPT !.at = p]
  /\ lossy' = lossy
  /\ begun' = begun
  /\ UNCHANGED sidevars

\* the GAMES reply, which may raise
ListReply(c, p, entries) ==
  /\ last' = [op |-> "LIST", conn |-> c]
  /\ sent' = <<Send(c, [type |-> "GAMES", games |-> entries])>>
  /\ trace' = list_games_trace(registered(p)) \o <<Snd>>
  /\ writes' = [writes EXCEPT !.at = p]
  /\ lossy' = lossy
  /\ begun' = begun
  /\ UNCHANGED sidevars
  /\ \E f \in MayRaise : pc' = [pc EXCEPT ![c] = IF f THEN "exit" ELSE "loop"]

\* list_games at point p, before the handler's remove_game call: the match
\* is in the registry still, and the call waits for games_lock
ListHolds(p) ==
  IF p > 0 /\ p < UnregPoint /\ UnregPoint <= Len(writes.seq)
  THEN /\ games' = registered(p)
       /\ pending' = pending \cup { [g |-> writes.seq[UnregPoint].g,
                                      conn |-> writes.conn] }
  ELSE UNCHANGED <<games, pending>>

\* LIST in three steps.  ListCheck takes games_lock and makes the status
\* test of every registered match; ListPlayers reads len(g.players) and
\* ListBuild reads g.status of the matches that passed, releases games_lock
\* and replies.  When no match passes the status test nothing is read
\* afterwards and ListCheck replies.  The reads of one match come in the
\* order of the loop body; with several matches in the registry they are
\* read at the same three points, and the reply maps each id to its entry.
\* The lister holds games_lock throughout, so a step that needs games_lock
\* (create_game, get_game, remove_game) waits.
ListCheck(c, p) ==
  /\ pc[c] = "loop"
  /\ ~Removing(c)
  /\ listing.conn = 0
  /\ p \in ReadPoints(c)
  /\ IF list_passed(p) = {}
     THEN /\ ListReply(c, p, <<>>)
          /\ UNCHANGED <<listing, games, pending>>
     ELSE /\ listing' = [conn |-> c, passed |-> list_passed(p), players |-> <<>>]
          /\ pc' = [pc EXCEPT ![c] = "list"]
          /\ ListStep(c, p)
          /\ ListHolds(p)
  /\ UNCHANGED <<name_registered, client_name, current_game, player,
                 active_names, game, ends>>

ListPlayers(c, p) ==
  /\ pc[c] = "list"
  /\ listing.conn = c
  /\ listing.players = <<>>
  /\ p \in ReadPoints(c)
  /\ listing' = [listing EXCEPT
                   !.players = [gid \in listing.passed |-> seen(gid, p).n]]
  /\ ListStep(c, p)
  /\ UNCHANGED <<pc, name_registered, client_name, current_game, player,
                 active_names, games, game, ends, pending>>

ListBuild(c, p) ==
  /\ pc[c] = "list"
  /\ listing.conn = c
  /\ listing.players # <<>>
  /\ p \in ReadPoints(c)
  /\ listing' = NoListing
  /\ ListReply(c, p, list_entries(listing.passed, listing.players, p))
  /\ UNCHANGED <<name_registered, client_name, current_game, player,
                 active_names, games, game, ends, pending>>

\* a remove_game call that waited for games_lock takes it
Unregister(e) ==
  /\ Idle
  /\ listing.conn = 0
  /\ e \in pending
  /\ games' = games \ {e.g}
  /\ pending' = pending \ {e}
  /\ Collect(games')
  /\ UNCHANGED <<pc, name_registered, client_name, current_game, player,
                 active_names, sent, last, lossy, listing, writes, trace,
                 begun>>
  /\ UNCHANGED sidevars

\* a fresh id, uuid4().hex[:6]: an id no Game object in existence has
fresh_id == CHOOSE k \in 1..(MaxGames + 1) :
              k \notin DOMAIN game /\ \A j \in 1..(k - 1) : j \in DOMAIN game

\* TicTacToeServer.create_game
create_game(max_players, creator) == NewGame(fresh_id, max_players, creator)

\* already_in_game that never finds the sender in a match
already_in_game_never(c) == FALSE

\* `current_game is not None`, the guard of CREATE and JOIN
already_in_game(c) == current_game[c] # NoGame

\* players_supported that also lets a count of 1 through
players_supported_upto3(n) == n \in {1, 2, 3}

\* `max_players in (2, 3)`
players_supported(n) == n \in {2, 3}

\* isint = FALSE: the "players" field does not convert with int()
Create(c, n, isint) ==
  /\ Idle
  /\ pc[c] = "loop"
  /\ ~Removing(c)
  /\ IF ~name_registered[c] \/ client_name[c] = <<>>
     THEN Reject(c, "CREATE", "You must set a unique name first.", <<>>, <<>>)
     ELSE IF already_in_game(c)
          THEN Reject(c, "CREATE", "Already in a game.", <<>>, <<>>)
     ELSE IF ~isint THEN Raise(c, "CREATE", <<>>)
     ELSE IF ~players_supported(n)
          THEN Reject(c, "CREATE", "Only 2 or 3 players supported.", <<>>, <<>>)
     ELSE /\ fresh_id <= MaxGames
          \* create_game takes games_lock
          /\ listing.conn = 0
          /\ game' = [k \in DOMAIN game \cup {fresh_id} |->
                        IF k = fresh_id THEN create_game(n, client_name[c])
                        ELSE game[k]]
          /\ games' = games \cup {fresh_id}
          /\ \E f \in MayRaise :
               Record(c, "CREATE",
                      <<Send(c, [type |-> "OK", msg |-> "Game created.",
                                 game_id |-> fresh_id])>>, f,
                      With("games_lock", <<>>) \o <<Snd>>)
          /\ UNCHANGED <<name_registered, client_name, current_game, player,
                         active_names, ends>>

\* join_error without the status check
join_error_no_status(g) ==
  IF Len(g.players) >= g.max_players THEN "Game is full." ELSE ""

\* the checks of JOIN made under the match lock: the error, or "" for none
join_error(g) ==
  IF g.status # "WAITING" THEN "Game already started/finished."
  ELSE IF Len(g.players) >= g.max_players THEN "Game is full."
  ELSE ""

\* JOIN: a match that has become full is set RUNNING with turn_index 0,
\* before the snapshot is taken
start_if_full(g) ==
  IF Len(g.players) = g.max_players
  THEN [g EXCEPT !.status = "RUNNING", !.turn_index = 0]
  ELSE g

\* the writes of JOIN to the match: the player appended (g1), then, when
\* the match has become full, the status set (g2)
join_writes(g1, g2) == IF g2 = g1 THEN <<Wr(g1)>> ELSE <<Wr(g1), Wr(g2)>>

\* JOIN from `with g.lock:` on, for the Game object g = game[gid] that
\* get_game returned.  The JOINED reply may raise; D1, D2: the connections
\* whose send raises in the START/WAIT broadcast and in the END broadcast
\* that may follow.
JoinUnderLock(c, gid) ==
     IF join_error(game[gid]) # ""
          THEN Reject(c, "JOIN", join_error(game[gid]),
                      With("games_lock", <<>>) \o <<Acq("lock"), Fld>>, <<"lock">>)
     ELSE LET g == game[gid]
              mark == MARKS_BY_COUNT[g.max_players][Len(g.players) + 1]
              g1 == [g EXCEPT !.players =
                        Append(@, [conn |-> c, name |-> client_name[c], mark |-> mark])]
              is_full == Len(g1.players) = g1.max_players
              g2 == start_if_full(g1)
              snap == snapshot(g2)
              joined == Send(c, [type |-> "JOINED",
                                 msg |-> <<"Joined game ", g.game_id, " as ", mark, ".">>,
                                 you |-> [name |-> client_name[c], mark |-> mark],
                                 state |-> snap])
              upd == broadcast_except_sends(
                       g2, [type |-> "GAME_UPDATE",
                            msg |-> <<client_name[c], " joined as ", mark, ".">>,
                            state |-> snap], c)
              bc == broadcast_sends(
                      g2, [type |-> IF is_full THEN "START" ELSE "WAIT",
                           msg |-> IF is_full THEN "Game started! X plays first."
                                   ELSE "Waiting for more players...",
                           state |-> snap])
          IN /\ current_game' = [current_game EXCEPT ![c] = gid]
             /\ player' = [player EXCEPT ![c] = mark]
             /\ \/ /\ lossy
                   /\ SetGame(gid, g2, FALSE, <<>>)
                   /\ Record(c, "JOIN", <<joined>>, TRUE,
                             With("games_lock", <<>>)
                             \o With("lock", <<Fld>> \o join_writes(g1, g2) \o <<Snd>>))
                \/ \E D1 \in DeadSets(g2), D2 \in DeadSets(g2) :
                     LET h == handle_dead_conns_after_send(g2, dead_of(g2, D1), FALSE, D2)
                     IN /\ SetGame(gid, h.g, h.removed, h.sends)
                        /\ Record(c, "JOIN", <<joined>> \o upd \o bc \o h.sends, FALSE,
                                  With("games_lock", <<>>)
                                  \o With("lock", <<Fld>> \o join_writes(g1, g2)
                                                   \o <<Snd>> \o Sends(upd)
                                                   \o Sends(bc) \o h.evs))
             /\ UNCHANGED <<name_registered, client_name, active_names>>

\* JOIN in two steps.  get_game returns the Game object under games_lock,
\* which is released before the worker asks for the object's own lock: other
\* workers may run in between.  JoinLookup is the handler up to get_game,
\* JoinLocked the `with g.lock:` block, on the object the lookup returned.
\* gid = 0: no game_id, or one that is falsy.  hashable = FALSE: the
\* game_id is a list or an object, which self.games.get raises on.
JoinLookup(c, gid, hashable) ==
  /\ Idle
  /\ pc[c] = "loop"
  /\ ~Removing(c)
  /\ IF ~name_registered[c] \/ client_name[c] = <<>>
     THEN Reject(c, "JOIN", "You must set a unique name first.", <<>>, <<>>)
     ELSE IF already_in_game(c)
          THEN Reject(c, "JOIN", "Already in a game.", <<>>, <<>>)
     ELSE IF gid = 0 THEN Reject(c, "JOIN", "Missing game_id.", <<>>, <<>>)
     \* get_game takes games_lock
     ELSE IF listing.conn # 0 THEN FALSE
     ELSE IF ~hashable THEN Raise(c, "JOIN", With("games_lock", <<>>))
     ELSE IF gid \notin games THEN Reject(c, "JOIN", "Game not found.",
                                             With("games_lock", <<>>), <<>>)
     ELSE /\ looked' = [looked EXCEPT ![c] = gid]
          /\ pc' = [pc EXCEPT ![c] = "join"]
          /\ UNCHANGED <<name_registered, client_name, current_game, player,
                         active_names, games, game, sent, last, lossy, ends,
                         listing, pending, writes, trace, begun, todo,
                         holder, probe, BUFFERS, conn_id, wire, handled>>

JoinLocked(c) ==
  /\ Idle
  /\ pc[c] = "join"
  /\ ~Stuck(looked[c])
  /\ JoinUnderLock(c, looked[c])

\* LEAVE in two steps.  Leave is the handler up to the end of its
\* `with g.lock:` block (or the whole of it, when the sender is in no match);
\* LeaveTail is the rest, which other workers may run before: len(g.players)
\* read without the lock, the remove_game call, the locals and the OK reply.
\* D: the connections whose send raises in the END broadcast
Leave(c) ==
  /\ Idle
  /\ pc[c] = "loop"
  /\ ~Removing(c)
  /\ IF current_game[c] = NoGame \/ player[c] = "None"
     THEN Reject(c, "LEAVE", "Not in a game.", <<>>, <<>>)
     ELSE ~Stuck(current_game[c]) /\ \E D \in DeadSets(game[current_game[c]]) :
          LET gid == current_game[c]
              r == depart(game[gid], c, " left. Game ended.", D)
          IN /\ SetGame(gid, r.g, r.removed, r.sends)
             /\ Part(c, "LEAVE_LOCKED", "leave", r.sends, r.evs)
             /\ UNCHANGED <<name_registered, client_name, current_game, player,
                            active_names>>

\* remove_game takes games_lock; the OK reply may raise
LeaveTail(c) ==
  /\ Idle
  /\ pc[c] = "leave"
  /\ ~Removing(c)
  /\ emptied(current_game[c], FALSE) => listing.conn = 0
  /\ games' = IF emptied(current_game[c], FALSE)
              THEN games \ {current_game[c]} ELSE games
  /\ current_game' = [current_game EXCEPT ![c] = NoGame]
  /\ player' = [player EXCEPT ![c] = "None"]
  /\ \E f \in MayRaise :
       Record(c, "LEAVE",
              <<Send(c, OkMsg("Left game. You can LIST/CREATE/JOIN again."))>>, f,
              after_block(emptied(current_game[c], FALSE)) \o <<Snd>>)
  /\ UNCHANGED <<name_registered, client_name, active_names, game, ends>>

\* move_error without the occupancy check
move_error_no_occupancy(g, mark, row, col, isint) ==
  IF g.status # "RUNNING" THEN "Game not running."
  ELSE IF g.players = <<>> \/ turn_mark(g) # mark THEN "Not your turn."
  ELSE IF ~isint THEN "raise"
  ELSE IF ~in_bounds(g.board_size, row, col) THEN "Out of bounds."
  ELSE ""

\* move_error with the bounds check made before the turn check
move_error_bounds_first(g, mark, row, col, isint) ==
  IF g.status # "RUNNING" THEN "Game not running."
  ELSE IF ~isint THEN "raise"
  ELSE IF ~in_bounds(g.board_size, row, col) THEN "Out of bounds."
  ELSE IF g.players = <<>> \/ turn_mark(g) # mark THEN "Not your turn."
  ELSE IF g.board[row][col] # EMPTY THEN "Cell is not empty."
  ELSE ""

\* the checks of MOVE made under the match lock, in order: the error,
\* "raise" where int() raises, or "" for none
move_error(g, mark, row, col, isint) ==
  IF g.status # "RUNNING" THEN "Game not running."
  ELSE IF g.players = <<>> \/ turn_mark(g) # mark THEN "Not your turn."
  ELSE IF ~isint THEN "raise"
  ELSE IF ~in_bounds(g.board_size, row, col) THEN "Out of bounds."
  ELSE IF g.board[row][col] # EMPTY THEN "Cell is not empty."
  ELSE ""

\* MOVE, neither a win nor a draw: the turn passes to the next player
advance_turn(g) == [g EXCEPT !.turn_index = (g.turn_index + 1) % Len(g.players)]

\* MOVE in two steps.  Move is the handler up to the end of its
\* `with g.lock:` block, or the whole of it when it ends with an error
\* (`continue`) or an exception; MoveTail is the rest of an accepted move,
\* which other workers may run before: g.status and len(g.players) read
\* without the lock, and the remove_game call.
\* isint = FALSE: row or col does not convert with int().
\* bounded: the run bounds the number of accepted moves per match.
Move(c, row, col, isint, bounded) ==
  /\ Idle
  /\ pc[c] = "loop"
  /\ ~Removing(c)
  /\ current_game[c] # NoGame => ~Stuck(current_game[c])
  /\ IF current_game[c] = NoGame \/ player[c] = "None"
     THEN Reject(c, "MOVE", "Not in a game.", <<>>, <<>>)
     ELSE IF move_error(game[current_game[c]], player[c], row, col, isint) = "raise"
          THEN Raise(c, "MOVE", With("lock", <<Fld>>))
     ELSE IF move_error(game[current_game[c]], player[c], row, col, isint) # ""
          THEN Reject(c, "MOVE",
                      move_error(game[current_game[c]], player[c], row, col, isint),
                      <<Acq("lock"), Fld>>, <<"lock">>)
     ELSE \E D1 \in DeadSets(game[current_game[c]]),
             D2 \in DeadSets(game[current_game[c]]) :
          LET gid == current_game[c]
              g == game[gid]
              g1 == [g EXCEPT !.board[row][col] = player[c]]
              winner == check_winner_3_in_row(g1.board)
              g2 == advance_turn(g1)
              bc == broadcast_sends(g2, [type |-> "GAME_UPDATE",
                                         state |-> snapshot(g2)])
              h == handle_dead_conns_after_send(g2, dead_of(g2, D1), FALSE, D2)
              r == IF winner # "None"
                   THEN close_game_for_all(g1, <<"Winner: ", winner>>, D1)
                   ELSE IF board_full(g1.board)
                        THEN close_game_for_all(g1, <<"Draw.">>, D1)
                   ELSE [g |-> h.g, sends |-> bc \o h.sends, removed |-> h.removed,
                         evs |-> Sends(bc) \o h.evs]
          IN /\ bounded => filled(g.board) < MaxMoves
             /\ UNCHANGED <<name_registered, client_name, current_game, player,
                            active_names>>
             /\ SetGame(gid, r.g, r.removed, r.sends)
             /\ Part(c, "MOVE_LOCKED", "move", r.sends,
                     With("lock", <<Fld>> \o r.evs))

\* remove_game takes games_lock
MoveTail(c) ==
  /\ Idle
  /\ pc[c] = "move"
  /\ ~Removing(c)
  /\ emptied(current_game[c], TRUE) => listing.conn = 0
  /\ games' = IF emptied(current_game[c], TRUE)
              THEN games \ {current_game[c]} ELSE games
  /\ Record(c, "MOVE", <<>>, FALSE, after_block(emptied(current_game[c], TRUE)))
  /\ UNCHANGED <<name_registered, client_name, current_game, player,
                 active_names, game, ends>>

\* QUIT: reply OK and break (a raising send leaves the loop as well)
Quit(c) ==
  /\ Idle
  /\ pc[c] = "loop"
  /\ ~Removing(c)
  /\ Record(c, "QUIT", <<Send(c, OkMsg("Bye"))>>, TRUE, <<Snd>>)
  /\ UNCHANGED <<name_registered, client_name, current_game, player,
                 active_names, games, game, ends>>

\* NOT_OBJECT: a line that is JSON but no object.  A list, a number, a
\* string or true has no `.get`, which raises; null is taken for the end of
\* the stream.  Either way nothing is sent and the loop is left.
OtherTypes == {"INFO", "__BAD_JSON__", "UNKNOWN", "NOT_OBJECT"}

\* INFO, a line that is not JSON, one that is no object, and any other type
Other(c, mtype) ==
  /\ Idle
  /\ pc[c] = "loop"
  /\ ~Removing(c)
  /\ IF mtype = "NOT_OBJECT" THEN Raise(c, mtype, <<>>) ELSE
     \E f \in MayRaise :
       Record(c, mtype,
              <<Send(c,
                     IF mtype = "INFO" THEN OkMsg("Use client-side INFO for commands.")
                     ELSE IF mtype = "__BAD_JSON__"
                          THEN ErrMsg("Bad message format (invalid JSON).")
                     ELSE ErrMsg(<<"Unknown type ", mtype>>))>>, f, <<Snd>>)
     /\ UNCHANGED <<name_registered, client_name, current_game, player,
                    active_names, games, game, ends>>

\* release_name that leaves the reservation in place
release_name_never(c) == active_names

\* the name registry after the finally block has released c's reservation
release_name(c) ==
  IF name_registered[c] /\ client_name[c] # <<>>
  THEN active_names \ {client_name[c]}
  ELSE active_names

\* `if name_registered and client_name:` and the `with names_lock:` block
\* it guards: the reservation is released; the thread's locals stay as they
\* are, and the socket is still open
ReleaseName(c) ==
  /\ active_names' = release_name(c)
  /\ Part(c, "FINALLY_RELEASE", "close", <<>>,
          IF name_registered[c] /\ client_name[c] # <<>>
          THEN With("names_lock", <<>>) ELSE <<>>)
  /\ UNCHANGED <<name_registered, client_name, current_game, player,
                 games, game, ends>>

\* The finally block of client_thread in four steps, between which the
\* worker holds no lock and other workers may run.  Finally is the block up
\* to the end of its `with g.lock:` block, or up to the end of its
\* `with names_lock:` block when the worker is in no match; FinallyTail is
\* len(g.players) read without the lock and the remove_game call;
\* FinallyRelease is the name released under names_lock; FinallyClose is
\* safe_close and log_disconnect, and the end of the thread.
Finally(c) ==
  /\ Idle
  /\ pc[c] = "exit"
  /\ ~Removing(c)
  /\ IF current_game[c] # NoGame /\ player[c] # "None"
     THEN \E D \in DeadSets(game[current_game[c]]) :
          LET gid == current_game[c]
              r == depart(game[gid], c, " disconnected. Game ended.", D)
          IN /\ ~Stuck(gid)
             /\ SetGame(gid, r.g, r.removed, r.sends)
             /\ Part(c, "FINALLY_LOCKED", "final", r.sends, r.evs)
             /\ UNCHANGED <<name_registered, client_name, current_game, player,
                            active_names>>
     ELSE ReleaseName(c)

\* remove_game takes games_lock; the name is still reserved when it returns
FinallyTail(c) ==
  /\ Idle
  /\ pc[c] = "final"
  /\ ~Removing(c)
  /\ emptied(current_game[c], FALSE) => listing.conn = 0
  /\ games' = IF emptied(current_game[c], FALSE)
              THEN games \ {current_game[c]} ELSE games
  /\ Part(c, "FINALLY_REMOVE", "release", <<>>,
          after_block(emptied(current_game[c], FALSE)))
  /\ UNCHANGED <<name_registered, client_name, current_game, player,
                 active_names, game, ends>>

\* `if name_registered and client_name:` and its `with names_lock:` block
FinallyRelease(c) ==
  /\ Idle
  /\ pc[c] = "release"
  /\ ReleaseName(c)

\* safe_close(conn) and log_disconnect, which takes conn_lock; the thread
\* ends and its locals are gone with it
FinallyClose(c) ==
  /\ Idle
  /\ pc[c] = "close"
  /\ pc' = [pc EXCEPT ![c] = "closed"]
  /\ last' = [op |-> "FINALLY", conn |-> c]
  /\ lossy' = lossy
  /\ listing' = listing
  /\ pending' = pending
  /\ UNCHANGED sidevars
  /\ name_registered' = [name_registered EXCEPT ![c] = FALSE]
  /\ client_name' = [client_name EXCEPT ![c] = <<>>]
  /\ current_game' = [current_game EXCEPT ![c] = NoGame]
  /\ player' = [player EXCEPT ![c] = "None"]
  /\ sent' = begun[c].sent
  /\ trace' = begun[c].trace \o With("conn_lock", <<>>)
  /\ writes' = [conn |-> c, seq |-> <<>>, at |-> 0]
  /\ begun' = [begun EXCEPT ![c] = NoPart]
  /\ UNCHANGED <<active_names, games, game, ends>>

\* the log of the last handler is cleared, and the Game objects nothing
\* refers to any more leave the model; no program state changes
Flush ==
  /\ ~Idle
  /\ last' = NoOp
  /\ sent' = <<>>
  /\ writes' = NoWrites
  /\ Collect(games)
  /\ UNCHANGED <<pc, name_registered, client_name, current_game, player,
                 active_names, games, lossy, listing, pending, begun,
                 todo, holder, looked, probe, BUFFERS, conn_id, wire,
                 handled>>
  /\ trace' = <<>>

\* ------------------------------------------------------------------- Next
\* the cells of the smaller board, and out-of-bounds cells on each side
MoveInputs ==
  ((0..2) \X (0..2)) \cup { <<-1, 0>>, <<0, -1>>, <<3, 0>>, <<0, 3>> }

\* a few cells: in bounds on both boards, in bounds on the larger board
\* only, and out of bounds on both
FewMoveInputs == { <<0, 0>>, <<1, 1>>, <<0, 2>>, <<3, 3>>, <<-1, 0>>, <<0, 4>> }

\* two clients in the lobby
LobbyConns == {1, 2}

Next ==
  \/ Flush
  \/ \E gid \in GameIds, c \in Conns : Unregister([g |-> gid, conn |-> c])
  \/ \E c \in LobbyConns :
    \/ Accept(c)
    \/ RecvEOF(c)
    \/ \E nm \in NameInputs : Hello(c, nm, TRUE)
    \/ Hello(c, <<"A">>, FALSE)
    \/ \E p \in Points : ListCheck(c, p)
    \/ \E p \in Points : ListPlayers(c, p)
    \/ \E p \in Points : ListBuild(c, p)
    \/ \E n \in PlayersInputs : Create(c, n, TRUE)
    \/ Create(c, 2, FALSE)
    \/ \E gid \in GameIdInputs : JoinLookup(c, gid, TRUE)
    \/ JoinLookup(c, 1, FALSE)
    \/ JoinLocked(c)
    \/ Leave(c)
    \/ LeaveTail(c)
    \/ \E rc \in FewMoveInputs : Move(c, rc[1], rc[2], TRUE, TRUE)
    \/ Move(c, 0, 0, FALSE, TRUE)
    \/ MoveTail(c)
    \/ Quit(c)
    \/ \E mtype \in OtherTypes : Other(c, mtype)
    \/ Finally(c)
    \/ FinallyTail(c)
    \/ FinallyRelease(c)
    \/ FinallyClose(c)

Spec == Init /\ [][Next]_vars

\* ------------------------------------------------- a three-player match
\* Three registered clients and one three-player match, created and joined
\* by the first (it holds X); the other two are in the lobby.
NameOf == [c \in Conns |-> IF c = 1 THEN <<"A">> ELSE IF c = 2 THEN <<"B">> ELSE <<"C">>]

InitTrio ==
  /\ pc = [c \in Conns |-> "loop"]
  /\ name_registered = [c \in Conns |-> TRUE]
  /\ client_name = NameOf
  /\ current_game = [c \in Conns |-> IF c = 1 THEN 1 ELSE NoGame]
  /\ player = [c \in Conns |-> IF c = 1 THEN "X" ELSE "None"]
  /\ active_names = { NameOf[c] : c \in Conns }
  /\ games = {1}
  /\ game = [k \in {1} |-> [NewGame(1, 3, NameOf[1]) EXCEPT !.players = <<[conn |-> 1, name |-> NameOf[1], mark |-> "X"]>>]]
  /\ sent = <<>>
  /\ last = NoOp
  /\ lossy = TRUE
  /\ ends = [c \in Conns |-> [gid \in GameIds |-> 0]]
  /\ listing = NoListing
  /\ pending = {}
  /\ writes = NoWrites
  /\ trace = <<>>
  /\ begun = [c \in Conns |-> NoPart]
  /\ todo = [c \in Conns |-> <<>>]
  /\ holder = [l \in Locks |-> NoWorker]
  /\ looked = [c \in Conns |-> NoGame]
  /\ probe = NoProbe
  /\ BUFFERS = <<>>
  /\ conn_id = [c \in Conns |-> NoId]
  /\ wire = [c \in Conns |-> NoBytes]
  /\ handled = [c \in Conns |-> <<>>]

NextTrio ==
  \/ Flush
  \/ \E c \in Conns :
    \/ RecvEOF(c)
    \/ JoinLookup(c, 1, TRUE)
    \/ JoinLocked(c)
    \/ Leave(c)
    \/ LeaveTail(c)
    \* a cell in bounds, one in bounds on the larger board only, one out of
    \* bounds
    \/ \E rc \in { <<0, 0>>, <<3, 3>>, <<-1, 0>> } : Move(c, rc[1], rc[2], TRUE, TRUE)
    \/ MoveTail(c)
    \/ Finally(c)
    \/ FinallyTail(c)
    \/ FinallyRelease(c)
    \/ FinallyClose(c)

SpecTrio == InitTrio /\ [][NextTrio]_vars

\* --------------------------------------------------- a two-player match
\* Two registered clients in a two-player match that has just started, who
\* keep their connection up; the whole board is played.
InitPlay ==
  /\ pc = [c \in Conns |-> IF c \in LobbyConns THEN "loop" ELSE "new"]
  /\ name_registered = [c \in Conns |-> c \in LobbyConns]
  /\ client_name = [c \in Conns |-> IF c \in LobbyConns THEN NameOf[c] ELSE <<>>]
  /\ current_game = [c \in Conns |-> IF c \in LobbyConns THEN 1 ELSE NoGame]
  /\ player = [c \in Conns |-> IF c \in LobbyConns THEN MARKS_BY_COUNT[2][c] ELSE "None"]
  /\ active_names = { NameOf[c] : c \in LobbyConns }
  /\ games = {1}
  /\ game = [k \in {1} |->
               [NewGame(1, 2, NameOf[1]) EXCEPT
                  !.players = [i \in 1..2 |->
                                 [conn |-> i, name |-> NameOf[i],
                                  mark |-> MARKS_BY_COUNT[2][i]]],
                  !.status = "RUNNING"]]
  /\ sent = <<>>
  /\ last = NoOp
  /\ lossy = FALSE
  /\ ends = [c \in Conns |-> [gid \in GameIds |-> 0]]
  /\ listing = NoListing
  /\ pending = {}
  /\ writes = NoWrites
  /\ trace = <<>>
  /\ begun = [c \in Conns |-> NoPart]
  /\ todo = [c \in Conns |-> <<>>]
  /\ holder = [l \in Locks |-> NoWorker]
  /\ looked = [c \in Conns |-> NoGame]
  /\ probe = NoProbe
  /\ BUFFERS = <<>>
  /\ conn_id = [c \in Conns |-> NoId]
  /\ wire = [c \in Conns |-> NoBytes]
  /\ handled = [c \in Conns |-> <<>>]

NextPlay ==
  \/ Flush
  \/ \E c \in LobbyConns :
    \/ Leave(c)
    \/ LeaveTail(c)
    \/ \E rc \in MoveInputs : Move(c, rc[1], rc[2], TRUE, FALSE)
    \/ Move(c, 0, 0, FALSE, FALSE)
    \/ MoveTail(c)
    \/ Finally(c)
    \/ FinallyTail(c)
    \/ FinallyRelease(c)
    \/ FinallyClose(c)

SpecPlay == InitPlay /\ [][NextPlay]_vars

\* ------------------------------------------------ two matches side by side
\* Two registered clients in the lobby and two two-player matches, created
\* by the first and by the second client and not joined yet.
InitTwo ==
  /\ pc = [c \in Conns |-> IF c \in LobbyConns THEN "loop" ELSE "new"]
  /\ name_registered = [c \in Conns |-> c \in LobbyConns]
  /\ client_name = [c \in Conns |-> IF c \in LobbyConns THEN NameOf[c] ELSE <<>>]
  /\ current_game = [c \in Conns |-> NoGame]
  /\ player = [c \in Conns |-> "None"]
  /\ active_names = { NameOf[c] : c \in LobbyConns }
  /\ games = {1, 2}
  /\ game = [k \in {1, 2} |-> NewGame(k, 2, NameOf[k])]
  /\ sent = <<>>
  /\ last = NoOp
  /\ lossy = TRUE
  /\ ends = [c \in Conns |-> [gid \in GameIds |-> 0]]
  /\ listing = NoListing
  /\ pending = {}
  /\ writes = NoWrites
  /\ trace = <<>>
  /\ begun = [c \in Conns |-> NoPart]
  /\ todo = [c \in Conns |-> <<>>]
  /\ holder = [l \in Locks |-> NoWorker]
  /\ looked = [c \in Conns |-> NoGame]
  /\ probe = NoProbe
  /\ BUFFERS = <<>>
  /\ conn_id = [c \in Conns |-> NoId]
  /\ wire = [c \in Conns |-> NoBytes]
  /\ handled = [c \in Conns |-> <<>>]

NextTwo ==
  \/ Flush
  \/ \E c \in LobbyConns :
    \/ RecvEOF(c)
    \/ \E gid \in GameIdInputs : JoinLookup(c, gid, TRUE)
    \/ JoinLocked(c)
    \/ Leave(c)
    \/ LeaveTail(c)
    \/ \E rc \in FewMoveInputs : Move(c, rc[1], rc[2], TRUE, TRUE)
    \/ MoveTail(c)
    \/ Finally(c)
    \/ FinallyTail(c)
    \/ FinallyRelease(c)
    \/ FinallyClose(c)

SpecTwo == InitTwo /\ [][NextTwo]_vars

\* ------------------------------------------- a three-player match that ends
\* the first n clients as the players of a match, in join order
Joined(n) ==
  [i \in 1..n |-> [conn |-> i, name |-> NameOf[i], mark |-> MARKS_BY_COUNT[3][i]]]

\* Three registered clients and one three-player match created by the
\* first, in one of two states.  started: the three have joined and played
\* X (0,0), O (1,0), Delta (2,0), X (0,1), O (1,1), Delta (2,1), so that each
\* mark has two cells of its row and the move to (r, 2) of the player whose
\* mark is in row r wins; X is to move.  Otherwise the first two have
\* joined, the match is WAITING and the third client is in the lobby.
InitEnd ==
  /\ pc = [c \in Conns |-> "loop"]
  /\ name_registered = [c \in Conns |-> TRUE]
  /\ client_name = NameOf
  /\ active_names = { NameOf[c] : c \in Conns }
  /\ games = {1}
  /\ \E started \in BOOLEAN :
       LET n == IF started THEN 3 ELSE 2
       IN /\ current_game = [c \in Conns |-> IF c <= n THEN 1 ELSE NoGame]
          /\ player = [c \in Conns |->
                         IF c <= n THEN MARKS_BY_COUNT[3][c] ELSE "None"]
          /\ game = [k \in {1} |->
                       [NewGame(1, 3, NameOf[1]) EXCEPT
                          !.players = Joined(n),
                          !.board = [r \in 0..3 |-> [c \in 0..3 |->
                                      IF started /\ r \in 0..2 /\ c \in 0..1
                                      THEN MARKS_BY_COUNT[3][r + 1] ELSE EMPTY]],
                          !.status = IF started THEN "RUNNING" ELSE "WAITING"]]
  /\ sent = <<>>
  /\ last = NoOp
  /\ lossy = TRUE
  /\ ends = [c \in Conns |-> [gid \in GameIds |-> 0]]
  /\ listing = NoListing
  /\ pending = {}
  /\ writes = NoWrites
  /\ trace = <<>>
  /\ begun = [c \in Conns |-> NoPart]
  /\ todo = [c \in Conns |-> <<>>]
  /\ holder = [l \in Locks |-> NoWorker]
  /\ looked = [c \in Conns |-> NoGame]
  /\ probe = NoProbe
  /\ BUFFERS = <<>>
  /\ conn_id = [c \in Conns |-> NoId]
  /\ wire = [c \in Conns |-> NoBytes]
  /\ handled = [c \in Conns |-> <<>>]

NextEnd ==
  \/ Flush
  \/ \E c \in Conns :
    \/ RecvEOF(c)
    \/ JoinLookup(c, 1, TRUE)
    \/ JoinLocked(c)
    \/ Leave(c)
    \/ LeaveTail(c)
    \* the cell that wins for X, and a cell that wins for nobody
    \/ \E rc \in { <<0, 2>>, <<3, 3>> } : Move(c, rc[1], rc[2], TRUE, FALSE)
    \/ MoveTail(c)
    \/ Finally(c)
    \/ FinallyTail(c)
    \/ FinallyRelease(c)
    \/ FinallyClose(c)

SpecEnd == InitEnd /\ [][NextEnd]_vars

\* ------------------------------------------- JOINs that arrive together
\* Three registered clients in the lobby and one two-player match, created
\* by the first and not joined yet: all three may look the match up before
\* any of them takes its lock.
InitLate ==
  /\ pc = [c \in Conns |-> "loop"]
  /\ name_registered = [c \in Conns |-> TRUE]
  /\ client_name = NameOf
  /\ current_game = [c \in Conns |-> NoGame]
  /\ player = [c \in Conns |-> "None"]
  /\ active_names = { NameOf[c] : c \in Conns }
  /\ games = {1}
  /\ game = [k \in {1} |-> NewGame(1, 2, NameOf[1])]
  /\ sent = <<>>
  /\ last = NoOp
  /\ lossy = TRUE
  /\ ends = [c \in Conns |-> [gid \in GameIds |-> 0]]
  /\ listing = NoListing
  /\ pending = {}
  /\ writes = NoWrites
  /\ trace = <<>>
  /\ begun = [c \in Conns |-> NoPart]
  /\ todo = [c \in Conns |-> <<>>]
  /\ holder = [l \in Locks |-> NoWorker]
  /\ looked = [c \in Conns |-> NoGame]
  /\ probe = NoProbe
  /\ BUFFERS = <<>>
  /\ conn_id = [c \in Conns |-> NoId]
  /\ wire = [c \in Conns |-> NoBytes]
  /\ handled = [c \in Conns |-> <<>>]

NextLate ==
  \/ Flush
  \/ \E c \in Conns :
    \/ JoinLookup(c, 1, TRUE)
    \/ JoinLocked(c)
    \/ \E rc \in { <<0, 0>>, <<1, 1>> } : Move(c, rc[1], rc[2], TRUE, TRUE)
    \/ MoveTail(c)

SpecLate == InitLate /\ [][NextLate]_vars

\* ------------------------------------------------- listing during play
\* The three clients and the three-player match of InitTrio; a client may
\* ask for the list while the others join and leave.
NextList ==
  \/ Flush
  \/ \E gid \in GameIds, c \in Conns : Unregister([g |-> gid, conn |-> c])
  \/ \E c \in Conns :
    \/ RecvEOF(c)
    \/ \E p \in Points : ListCheck(c, p)
    \/ \E p \in Points : ListPlayers(c, p)
    \/ \E p \in Points : ListBuild(c, p)
    \/ \E gid \in GameIdInputs : JoinLookup(c, gid, TRUE)
    \/ JoinLocked(c)
    \/ Leave(c)
    \/ LeaveTail(c)
    \/ Finally(c)
    \/ FinallyTail(c)
    \/ FinallyRelease(c)
    \/ FinallyClose(c)

SpecList == InitTrio /\ [][NextList]_vars

\* ------------------------------------------------- the workers' locks
\* The handlers above run one at a time.  Here the workers run side by side
\* and only their lock acquisitions, their lock releases and the sends they
\* make while they hold a lock are kept.  Between two outermost `with`
\* blocks a worker holds no lock, so a worker is modelled as running one
\* outermost `with` block after another, each being the sequence of events
\* made from its entry to its exit; an acquisition waits until the lock is
\* free (threading.Lock is not reentrant: a worker that acquires a lock it
\* holds waits for ever), and a send returns when sendall does (no timeout
\* is set on the sockets: it blocks while the peer does not read).

\* sends that follow one another, taken as one
RECURSIVE Squash(_)
Squash(p) ==
  IF Len(p) < 2 THEN p
  ELSE IF p[1].e = "send" /\ p[2].e = "send" THEN Squash(Tail(p))
  ELSE <<p[1]>> \o Squash(Tail(p))

\* the lock events and the sends of a handler's trace
LockEvents(tr) ==
  Squash(SelectSeq(tr, LAMBDA ev : ev.e \in {"acq", "rel", "send"}))

\* the number of locks held after the first i events of p
Depth(p, i) ==
  Cardinality({ k \in 1..i : p[k].e = "acq" })
    - Cardinality({ k \in 1..i : p[k].e = "rel" })

\* the outermost `with` blocks of the events p
TopSections(p) ==
  UNION { { SubSeq(p, i, j) :
              j \in { n \in i..Len(p) :
                        /\ p[i].e = "acq"
                        /\ Depth(p, i - 1) = 0
                        /\ Depth(p, n) = 0
                        /\ \A k \in i..(n - 1) : Depth(p, k) > 0 } } :
          i \in 1..Len(p) }

\* the outermost `with` blocks of the server.  names_lock: HELLO (the err
\* call for a name that exists is made under it) and the finally block.
\* games_lock: list_games, create_game, get_game and the remove_game calls
\* made after a match's lock is released.  conn_lock: log_disconnect.  A
\* match's lock: JOIN, LEAVE, MOVE and the finally block, which send under
\* it; a broadcast whose sends fail is followed by remove_game, or by the
\* END broadcast of close_game_for_all and then remove_game.
LockSections ==
  { With("names_lock", <<>>),
    With("names_lock", <<Snd>>),
    list_games_locks,
    With("conn_lock", <<>>),
    With("lock", <<>>),
    With("lock", <<Snd>>),
    With("lock", <<Snd>> \o With("games_lock", <<>>)),
    With("lock", <<Snd>> \o With("games_lock", <<>>) \o With("games_lock", <<>>)) }

\* every outermost `with` block a handler of the model runs is one of
\* LockSections
TraceInSections == TopSections(LockEvents(trace)) \subseteq LockSections

\* the events of section p for a worker whose match is m
Resolve(p, m) ==
  [i \in 1..Len(p) |->
     [e |-> p[i].e, l |-> <<p[i].l, IF p[i].l = "lock" THEN m ELSE NoGame>>]]

\* worker w comes to an outermost `with` block, p, in a handler on match m
Begin(w, p, m) ==
  /\ todo[w] = <<>>
  /\ p # <<>>
  /\ todo' = [todo EXCEPT ![w] = Resolve(p, m)]
  /\ UNCHANGED holder
  /\ UNCHANGED <<progvars, looked, probe, bufvars>>

\* lock.acquire(): waits while the lock is held, by any worker
Acquire(w) ==
  /\ todo[w] # <<>>
  /\ Head(todo[w]).e = "acq"
  /\ holder[Head(todo[w]).l] = NoWorker
  /\ holder' = [holder EXCEPT ![Head(todo[w]).l] = w]
  /\ todo' = [todo EXCEPT ![w] = Tail(todo[w])]
  /\ UNCHANGED <<progvars, looked, probe, bufvars>>

\* lock.release(), at the end of a `with` block
Release(w) ==
  /\ todo[w] # <<>>
  /\ Head(todo[w]).e = "rel"
  /\ holder' = [holder EXCEPT ![Head(todo[w]).l] = NoWorker]
  /\ todo' = [todo EXCEPT ![w] = Tail(todo[w])]
  /\ UNCHANGED <<progvars, looked, probe, bufvars>>

\* conn.sendall returns or raises: the peer took the bytes, or the
\* connection failed
Sent(w) ==
  /\ todo[w] # <<>>
  /\ Head(todo[w]).e = "send"
  /\ todo' = [todo EXCEPT ![w] = Tail(todo[w])]
  /\ UNCHANGED holder
  /\ UNCHANGED <<progvars, looked, probe, bufvars>>

NextLocks ==
  \E w \in Conns :
    \/ \E p \in LockSections, m \in GameIds : Begin(w, p, m)
    \/ Acquire(w)
    \/ Release(w)
    \/ Sent(w)

\* a runnable thread is scheduled: a worker at a release makes it, and a
\* worker at an acquisition of a lock that stays free takes it.  Nothing
\* makes sendall return while the peer does not read, and nothing says which
\* of the workers that wait for a lock takes it when it is released.
LocksFairness ==
  \A w \in Conns : WF_vars(Release(w)) /\ WF_vars(Acquire(w))

SpecLocks == Init /\ [][NextLocks]_vars /\ LocksFairness

\* worker w is at an acquisition of a lock that is held
Waiting(w) ==
  /\ todo[w] # <<>>
  /\ Head(todo[w]).e = "acq"
  /\ holder[Head(todo[w]).l] # NoWorker

\* ================================================================ claims
\* the locks a worker holds just before event i of the lock events tr
HeldAt(tr, i) ==
  { l \in {"names_lock", "games_lock", "conn_lock", "lock"} :
      Cardinality({ j \in 1..(i - 1) : tr[j] = Acq(l) })
        > Cardinality({ j \in 1..(i - 1) : tr[j] = Rel(l) }) }

\* the positions of a worker whose thread runs and has not come to the name
\* release of its finally block: its connection is live, and the name it
\* has reserved is its own.  (At "close" the thread still runs and its
\* locals still say name_registered, but its reservation is released.)
LivePcs == {"loop", "list", "join", "leave", "move", "exit", "final", "release"}

\* connection c is live and has reserved the name n
Holds(c, n) == pc[c] \in LivePcs /\ name_registered[c] /\ client_name[c] = n

\* C1: no two live connections hold the same display name (a connection
\* holds its name from its accepted HELLO until the name release of its
\* finally block); a HELLO with a name held by another live connection is
\* rejected and leaves the sender as it was (unregistered, if it was), and a
\* HELLO by an unregistered sender with a non-empty name that no live
\* connection holds (for instance because its holder has been torn down)
\* succeeds.
C1_UniqueNames ==
  [][ /\ \A c1, c2 \in Conns :
           ( /\ c1 # c2
             /\ pc'[c1] \in LivePcs
             /\ name_registered'[c1]
             /\ pc'[c2] \in LivePcs
             /\ name_registered'[c2] )
           => client_name'[c1] # client_name'[c2]
      /\ \A c \in Conns, nm \in NameInputs :
           (last'.op = "HELLO" /\ last'.conn = c) =>
             \* the step is not HELLO(c, nm), or it has the stated outcome
             \/ IF \E d \in Conns \ {c} : Holds(d, strip(nm))
                THEN /\ sent' = <<Send(c, ErrMsg(IF name_registered[c]
                                                 THEN "Name already set."
                                                 ELSE "Name already exists."))>>
                     /\ name_registered'[c] = name_registered[c]
                     /\ client_name'[c] = client_name[c]
                     /\ active_names' = active_names
                ELSE (~name_registered[c] /\ strip(nm) # <<>>) =>
                       /\ name_registered'[c]
                       /\ client_name'[c] = strip(nm)
                       /\ sent'[1].body.type = "OK"
             \/ ~Hello(c, nm, TRUE)
    ]_vars

\* a HELLO was just rejected because another live connection holds the name
C1_Witness ==
  /\ last.op = "HELLO"
  /\ sent = <<Send(last.conn, ErrMsg("Name already exists."))>>
  /\ ~name_registered[last.conn]
  /\ \E d \in Conns \ {last.conn} : \E nm \in NameInputs : Holds(d, strip(nm))

\* C2: when a player leaves (LEAVE) or disconnects (the finally block) from
\* a match that is WAITING or RUNNING and at least one other player remains,
\* the match becomes FINISHED and each remaining player is sent exactly one
\* END, and nobody else any; when the match is already FINISHED no END is
\* sent at all; and over a whole run no connection is sent more than one
\* END for the same match.
C2_LeaveEndsOnce ==
  [][ /\ \A c \in Conns :
           ( /\ last'.op \in {"LEAVE_LOCKED", "FINALLY_LOCKED"} /\ last'.conn = c
             /\ current_game[c] # NoGame /\ player[c] # "None" )
           => LET gid == current_game[c]
                  g == game[gid]
                  rest == PlayerConns(g) \ {c}
              IN /\ (g.status \in {"WAITING", "RUNNING"} /\ rest # {}) =>
                      /\ game'[gid].status = "FINISHED"
                      /\ \A p \in rest : CountEnds(sent', p, gid) = 1
                      /\ \A x \in Conns \ rest : CountEnds(sent', x, gid) = 0
                 /\ g.status = "FINISHED" =>
                      \A i \in 1..Len(sent') : sent'[i].body.type # "END"
      /\ \A x \in Conns, k \in GameIds : ends'[x][k] <= 1
    ]_vars

\* a player has just left a running three-player match: it is FINISHED, and
\* the two who remain were sent one END each
C2_Witness ==
  /\ last.op \in {"LEAVE_LOCKED", "FINALLY_LOCKED"}
  /\ \E gid \in DOMAIN game :
       /\ game[gid].status = "FINISHED"
       /\ filled(game[gid].board) >= 1
       /\ Len(game[gid].players) = 2
       /\ last.conn \notin PlayerConns(game[gid])
       /\ \A p \in PlayerConns(game[gid]) : CountEnds(sent, p, gid) = 1

\* the last step was the `with g.lock:` block of a MOVE that was accepted:
\* it wrote a mark
MoveAccepted ==
  /\ last.op = "MOVE_LOCKED"
  /\ sent # <<>>
  /\ sent[1].body.type # "ERR"

\* C3: after a MOVE that completes three consecutive cells of a mark M the
\* match is FINISHED and every player of the match has been sent an END
\* whose result.winner is M.
C3_WinnerInEnd ==
  \A gid \in DOMAIN game :
    ( /\ MoveAccepted
      /\ current_game[last.conn] = gid
      /\ check_winner_3_in_row(game[gid].board) # "None" )
    => /\ game[gid].status = "FINISHED"
       /\ \A p \in PlayerConns(game[gid]) :
            \E i \in 1..Len(sent) :
              /\ sent[i].to = p
              /\ sent[i].body.type = "END"
              /\ sent[i].body.result.winner = check_winner_3_in_row(game[gid].board)

\* C4: after a MOVE that fills the last empty cell without a three-in-a-row
\* the match is FINISHED and every player has been sent an END whose result
\* has draw = true and winner = null.
C4_DrawInEnd ==
  \A gid \in DOMAIN game :
    ( /\ MoveAccepted
      /\ current_game[last.conn] = gid
      /\ board_full(game[gid].board)
      /\ check_winner_3_in_row(game[gid].board) = "None" )
    => /\ game[gid].status = "FINISHED"
       /\ \A p \in PlayerConns(game[gid]) :
            \E i \in 1..Len(sent) :
              /\ sent[i].to = p
              /\ sent[i].body.type = "END"
              /\ "draw" \in DOMAIN sent[i].body.result
              /\ sent[i].body.result.draw = TRUE
              /\ sent[i].body.result.winner = "None"

\* C5 as it is stated, for a match of any status: a MOVE by a player of a
\* match that is out of turn, out of bounds or aimed at a non-empty cell is
\* answered with the error of the first of these that applies ("Not your
\* turn." before "Out of bounds." before "Cell is not empty.") and leaves
\* the board, turn_index and status of the match as they were.
C5_RejectedMoveAnyStatus ==
  [][ \A c \in Conns, rc \in FewMoveInputs :
        ( /\ last'.op \in {"MOVE", "MOVE_LOCKED"} /\ last'.conn = c
          /\ current_game[c] # NoGame /\ player[c] # "None" )
        => \* the step is not MOVE(c, rc), or it has the stated outcome
           LET g == game[current_game[c]]
               out_of_turn == \/ g.players = <<>>
                              \/ g.players[g.turn_index + 1].mark # player[c]
               out_of_bounds == \/ rc[1] < 0 \/ rc[1] >= g.board_size
                                \/ rc[2] < 0 \/ rc[2] >= g.board_size
               taken == ~out_of_bounds /\ g.board[rc[1]][rc[2]] # EMPTY
           IN \/ (out_of_turn \/ out_of_bounds \/ taken) =>
                   /\ sent' = <<Send(c, ErrMsg(IF out_of_turn THEN "Not your turn."
                                               ELSE IF out_of_bounds THEN "Out of bounds."
                                               ELSE "Cell is not empty."))>>
                   /\ game' = game
                   /\ games' = games
              \/ ~Move(c, rc[1], rc[2], TRUE, TRUE)
    ]_vars

\* C5, amended: a MOVE to a match that is not RUNNING is answered "Game not
\* running." whatever its turn and cell; a MOVE to a RUNNING match that is
\* out of turn, out of bounds or aimed at a non-empty cell is answered with
\* exactly one error, "Not your turn." before "Out of bounds." before "Cell
\* is not empty."; either way every match (board, turn_index, status,
\* players) and the registry are left as they were, as they are by every
\* MOVE answered with an error.
C5_RejectedMove ==
  [][ \A c \in Conns, rc \in FewMoveInputs :
        ( /\ last'.op \in {"MOVE", "MOVE_LOCKED"} /\ last'.conn = c
          /\ current_game[c] # NoGame /\ player[c] # "None" )
        => \* the step is not MOVE(c, rc), or it has the stated outcome
           LET g == game[current_game[c]]
               out_of_turn == \/ g.players = <<>>
                              \/ g.players[g.turn_index + 1].mark # player[c]
               out_of_bounds == \/ rc[1] < 0 \/ rc[1] >= g.board_size
                                \/ rc[2] < 0 \/ rc[2] >= g.board_size
               taken == ~out_of_bounds /\ g.board[rc[1]][rc[2]] # EMPTY
           IN \/ /\ g.status # "RUNNING" =>
                      /\ sent' = <<Send(c, ErrMsg("Game not running."))>>
                      /\ game' = game
                      /\ games' = games
                 /\ (g.status = "RUNNING" /\ (out_of_turn \/ out_of_bounds \/ taken)) =>
                      /\ sent' = <<Send(c, ErrMsg(IF out_of_turn THEN "Not your turn."
                                                  ELSE IF out_of_bounds THEN "Out of bounds."
                                                  ELSE "Cell is not empty."))>>
                      /\ game' = game
                      /\ games' = games
                 /\ (sent' # <<>> /\ sent'[1].body.type = "ERR") =>
                      /\ Len(sent') = 1
                      /\ game' = game
                      /\ games' = games
              \/ ~Move(c, rc[1], rc[2], TRUE, TRUE)
    ]_vars

\* a MOVE in turn and in bounds was just rejected because the cell is taken
C5_Witness ==
  /\ last.op = "MOVE"
  /\ sent = <<Send(last.conn, ErrMsg("Cell is not empty."))>>
  /\ current_game[last.conn] # NoGame
  /\ game[current_game[last.conn]].status = "RUNNING"
  /\ filled(game[current_game[last.conn]].board) >= 1

\* C6: a cell that holds a mark holds the same mark after every step, for
\* every match and whatever the handler (MOVE, JOIN, LEAVE, disconnect).
C6_CellsKeepMark ==
  [][ \A gid \in (DOMAIN game) \cap (DOMAIN game') :
        \A r \in DOMAIN game[gid].board, c \in DOMAIN game[gid].board :
          game[gid].board[r][c] # EMPTY =>
            game'[gid].board[r][c] = game[gid].board[r][c]
    ]_vars

\* a player has just left a match whose board holds two marks
C6_Witness ==
  /\ last.op = "LEAVE_LOCKED"
  /\ \E gid \in DOMAIN game :
       /\ filled(game[gid].board) = 2
       /\ game[gid].status = "FINISHED"
       /\ last.conn \notin PlayerConns(game[gid])

\* C7: in every reachable state, a match with a non-empty player list has
\* 0 <= turn_index < len(players).
C7_TurnIndexValid ==
  \A gid \in DOMAIN game :
    game[gid].players # <<>> =>
      /\ 0 <= game[gid].turn_index
      /\ game[gid].turn_index < Len(game[gid].players)

\* the third player of a three-player match was to move (turn_index 2) and
\* one of the three has been removed: two remain
C7_Witness ==
  \E gid \in DOMAIN game :
    /\ game[gid].max_players = 3
    /\ filled(game[gid].board) = 2
    /\ check_winner_3_in_row(game[gid].board) = "None"
    /\ Len(game[gid].players) = 2
    /\ last.op \in {"LEAVE_LOCKED", "FINALLY_LOCKED", "MOVE_LOCKED"}

\* C8: in every reachable state a match whose status is RUNNING has exactly
\* max_players players, also after sends that fail during a broadcast.
C8_RunningIsFull ==
  \A gid \in DOMAIN game :
    game[gid].status = "RUNNING" => Len(game[gid].players) = game[gid].max_players

\* C9: a match that is FINISHED stays FINISHED, keeps its board, and gains
\* no player, whatever the next step.
C9_FinishedIsTerminal ==
  [][ \A gid \in (DOMAIN game) \cap (DOMAIN game') :
        game[gid].status = "FINISHED" =>
          /\ game'[gid].status = "FINISHED"
          /\ game'[gid].board = game[gid].board
          /\ PlayerConns(game'[gid]) \subseteq PlayerConns(game[gid])
    ]_vars

\* a JOIN of a registered match that a winning move has FINISHED and that
\* has a free seat since was rejected
C9_Witness ==
  /\ last.op = "JOIN"
  /\ sent = <<Send(last.conn, ErrMsg("Game already started/finished."))>>
  /\ \E gid \in games :
       /\ game[gid].status = "FINISHED"
       /\ check_winner_3_in_row(game[gid].board) # "None"
       /\ game[gid].players # <<>>
       /\ Len(game[gid].players) < game[gid].max_players

\* C10: when a JOIN has brought a match to max_players (the JOINED reply
\* shows the full roster), the marks of the roster are X, O, Delta in join
\* order, the first joiner holding X, and every player of the roster has
\* been sent a START whose snapshot has status RUNNING and turn X.
C10_StartOnFull ==
  ( /\ last.op = "JOIN"
    /\ sent # <<>>
    /\ sent[1].body.type = "JOINED"
    /\ Len(sent[1].body.state.players) = sent[1].body.state.max_players )
  => LET snap == sent[1].body.state
     IN /\ snap.players[1].mark = "X"
        /\ \A i \in 1..Len(snap.players) :
             snap.players[i].mark = MARKS_BY_COUNT[snap.max_players][i]
        /\ \A c \in Conns :
             (\E i \in 1..Len(snap.players) : snap.players[i].name = NameOf[c]) =>
               \E j \in 1..Len(sent) :
                 /\ sent[j].to = c
                 /\ sent[j].body.type = "START"
                 /\ sent[j].body.state.status = "RUNNING"
                 /\ sent[j].body.state.turn = "X"

\* C11: a connection that is still in the player list of a match that has
\* reached FINISHED is back in the lobby: the CREATE or JOIN it sends next
\* is not rejected with "Already in a game.".
C11_BackToLobby ==
  [][ \A c \in Conns :
        ( /\ current_game[c] # NoGame
          /\ game[current_game[c]].status = "FINISHED"
          /\ c \in PlayerConns(game[current_game[c]])
          /\ last'.op \in {"CREATE", "JOIN"}
          /\ last'.conn = c )
        => sent' # <<Send(c, ErrMsg("Already in a game."))>>
    ]_vars

\* C12: after the teardown of a connection (the finally block, however the
\* loop was left) the connection is in no match's player list and the
\* reservation of its name is gone from the name registry: the step that
\* releases it leaves the registry without the name, and from then on the
\* connection is in no player list; at every moment the registry holds
\* exactly the names of the connections that have one reserved and not
\* released, and a closed connection is in no player list.
C12_TeardownReleases ==
  [][ /\ \A c \in Conns :
           (last'.op = "FINALLY_RELEASE" /\ last'.conn = c) =>
             /\ pc[c] \in {"exit", "release"} /\ pc'[c] = "close"
             /\ \A gid \in DOMAIN game' : c \notin PlayerConns(game'[gid])
             /\ (name_registered[c] /\ client_name[c] # <<>>) =>
                  client_name[c] \notin active_names'
      /\ \A c \in Conns :
           (last'.op = "FINALLY" /\ last'.conn = c) =>
             pc[c] = "close" /\ pc'[c] = "closed"
      /\ \A c \in Conns :
           pc'[c] \in {"close", "closed"} =>
             \A gid \in DOMAIN game' : c \notin PlayerConns(game'[gid])
      /\ active_names' = { client_name'[c] :
                             c \in { d \in Conns : /\ name_registered'[d]
                                                   /\ pc'[d] # "close" } }
    ]_vars

\* a connection that held a name and sat in a match with another player has
\* just been torn down: the other player was sent END, and nobody has
\* reserved its name since
C12_Witness ==
  /\ last.op = "FINALLY"
  /\ pc[last.conn] = "closed"
  /\ \E i \in 1..Len(sent) : sent[i].body.type = "END"
  /\ \A c \in Conns : client_name[c] \in active_names => c # last.conn

\* C13: once every connection that was accepted has been torn down, the
\* match registry is empty.
C13_RegistryEmptied ==
  ( /\ \A c \in Conns : pc[c] \in {"new", "closed"}
    /\ \E c \in Conns : pc[c] = "closed" )
  => games = {}

\* C14: a session ends only on QUIT, on peer close or on a socket failure:
\* every other inbound line (HELLO, LIST, CREATE, JOIN, LEAVE, MOVE, INFO,
\* malformed JSON, an unknown type; valid or not, with or without integer
\* fields) is answered with a message to its sender, and unless a send fails
\* the worker keeps reading.
C14_SessionContinues ==
  [][ \A c \in Conns :
        ( /\ last'.conn = c
          /\ last'.op \notin {"NONE", "ACCEPT", "EOF", "QUIT", "FINALLY"}
          \* nor a step that is not the end of a handler: a step of
          \* list_games, the `with g.lock:` block of LEAVE, MOVE and the
          \* finally block, the remove_game test and the name release of
          \* the finally block
          /\ last'.op \notin {"LISTING", "LEAVE_LOCKED", "MOVE_LOCKED",
                              "FINALLY_LOCKED", "FINALLY_REMOVE",
                              "FINALLY_RELEASE"} )
        => /\ \E i \in 1..Len(sent') : sent'[i].to = c
           /\ (pc'[c] = "loop" \/ lossy)
    ]_vars

\* C15: a request that is invalid in the sender's session state (CREATE or
\* JOIN without a reserved name or while in a match, CREATE with a count
\* other than 2 or 3, JOIN of an unknown, non-WAITING or full match, LEAVE
\* or MOVE while in no match, a second HELLO) is answered with exactly one
\* ERR to the sender and leaves the name registry, the match registry and
\* every match as they were.
C15_InvalidRequestFrame ==
  [][ \A c \in Conns :
        LET unnamed == ~name_registered[c] \/ client_name[c] = <<>>
            in_match == current_game[c] # NoGame
            invalid ==
              /\ last'.conn = c
              /\ \/ /\ last'.op = "HELLO"
                    /\ name_registered[c]
                    /\ \E nm \in NameInputs : Hello(c, nm, TRUE)
                 \/ /\ last'.op = "CREATE"
                    /\ \E n \in PlayersInputs :
                         /\ unnamed \/ in_match \/ n \notin {2, 3}
                         /\ Create(c, n, TRUE)
                 \/ /\ last'.op = "JOIN"
                    /\ \/ \E gid \in GameIdInputs :
                            /\ unnamed \/ in_match \/ gid \notin games
                            /\ JoinLookup(c, gid, TRUE)
                       \/ /\ pc[c] = "join"
                          /\ join_error(game[looked[c]]) # ""
                          /\ JoinLocked(c)
                 \/ /\ last'.op = "LEAVE"
                    /\ ~in_match
                    /\ Leave(c)
                 \/ /\ last'.op = "MOVE"
                    /\ ~in_match
                    /\ \E rc \in FewMoveInputs : Move(c, rc[1], rc[2], TRUE, TRUE)
        IN invalid =>
             /\ Len(sent') = 1
             /\ sent'[1].to = c
             /\ sent'[1].body.type = "ERR"
             /\ active_names' = active_names
             /\ games' = games
             /\ game' = game
    ]_vars

\* a CREATE with an unsupported player count was just rejected while a
\* match is registered
C15_Witness ==
  /\ last.op = "CREATE"
  /\ sent = <<Send(last.conn, ErrMsg("Only 2 or 3 players supported."))>>
  /\ games # {}

\* C16: in every reachable state a connection is in the player list of at
\* most one match, and at most once in that list.
C16_OneMembership ==
  \A c \in Conns :
    /\ Cardinality({ gid \in DOMAIN game : c \in PlayerConns(game[gid]) }) <= 1
    /\ \A gid \in DOMAIN game :
         Cardinality({ i \in 1..Len(game[gid].players) :
                         game[gid].players[i].conn = c }) <= 1

\* two matches have players at the same time, and a JOIN by a connection
\* that is in one of them was just rejected
C16_Witness ==
  /\ last.op = "JOIN"
  /\ sent = <<Send(last.conn, ErrMsg("Already in a game."))>>
  /\ \E g1 \in DOMAIN game, g2 \in DOMAIN game :
       /\ g1 # g2
       /\ last.conn \in PlayerConns(game[g1])
       /\ game[g2].players # <<>>
       /\ game[g2].status = "WAITING"

\* C17: every entry of every GAMES reply describes a match whose status is
\* WAITING (no entry shows RUNNING or FINISHED), and a LIST is answered
\* whatever the session state of its sender.
C17_ListOnlyWaiting ==
  /\ \A i \in 1..Len(sent) :
       sent[i].body.type = "GAMES" =>
         \A gid \in DOMAIN sent[i].body.games :
           sent[i].body.games[gid].status = "WAITING"
  /\ last.op = "LIST" =>
       /\ Len(sent) = 1
       /\ sent[1].to = last.conn
       /\ sent[1].body.type = "GAMES"

\* C18: no handler makes a network send while it holds the name registry
\* lock or the match registry lock.
C18_NoSendUnderRegistryLock ==
  \A i \in 1..Len(trace) :
    trace[i] = Snd => HeldAt(trace, i) \cap {"names_lock", "games_lock"} = {}

\* C19: no handler acquires the match registry lock or the name registry
\* lock while it holds a match's lock, nor a match's lock while it holds a
\* registry lock.
C19_NoCrossLocking ==
  \A i \in 1..Len(trace) :
    /\ trace[i] \in {Acq("names_lock"), Acq("games_lock")} =>
         "lock" \notin HeldAt(trace, i)
    /\ trace[i] = Acq("lock") =>
         HeldAt(trace, i) \cap {"names_lock", "games_lock"} = {}

\* C20: the workers never deadlock on their locks: no worker is at an
\* acquisition of a lock it holds itself, and a worker waiting for a match's
\* lock, games_lock, names_lock or conn_lock eventually acquires it.
C20_NoLockDeadlock ==
  /\ [](\A w \in Conns :
          (todo[w] # <<>> /\ Head(todo[w]).e = "acq") =>
            holder[Head(todo[w]).l] # w)
  /\ \A w \in Conns : Waiting(w) ~> ~Waiting(w)

\* ---------------------------------------------------------------- C21
\* C21: every read and every write of a match's players, board, turn_index
\* or status by a worker happens while that worker holds the match's lock.
C21_FieldsUnderMatchLock ==
  \A i \in 1..Len(trace) : trace[i] = Fld => "lock" \in HeldAt(trace, i)

\* ---------------------------------------------------------------- C22
\* C22: no client is shown a full roster together with status WAITING: in
\* every state snapshot sent in any message, and in every entry of a GAMES
\* reply, a player count equal to max_players comes with a status other
\* than WAITING.
C22_NoFullWaitingSnapshot ==
  \A i \in 1..Len(sent) :
    /\ "state" \in DOMAIN sent[i].body =>
         (Len(sent[i].body.state.players) = sent[i].body.state.max_players
            => sent[i].body.state.status # "WAITING")
    /\ sent[i].body.type = "GAMES" =>
         \A gid \in DOMAIN sent[i].body.games :
           sent[i].body.games[gid].players = sent[i].body.games[gid].max
             => sent[i].body.games[gid].status # "WAITING"

\* ---------------------------------------------------------------- C23
\* C23: in a RUNNING match the k-th accepted move (k = 0, 1, 2, ...) is made
\* by players[k mod max_players] and writes that player's mark into an empty
\* cell, and after an accepted move that does not end the match turn_index
\* is (previous turn_index + 1) mod len(players).
C23_StrictRotation ==
  [][ \A c \in Conns :
        ( /\ last'.op = "MOVE_LOCKED"
          /\ last'.conn = c
          /\ sent' # <<>>
          /\ sent'[1].body.type # "ERR" )
        => /\ current_game[c] \in DOMAIN game
           /\ game[current_game[c]].status = "RUNNING"
           /\ game[current_game[c]].players[
                 (filled(game[current_game[c]].board)
                    % game[current_game[c]].max_players) + 1].conn = c
           /\ filled(game'[current_game[c]].board)
                = filled(game[current_game[c]].board) + 1
           /\ \E r \in DOMAIN game[current_game[c]].board,
                  k \in DOMAIN game[current_game[c]].board :
                /\ game[current_game[c]].board[r][k] = EMPTY
                /\ game'[current_game[c]].board[r][k]
                     = game[current_game[c]].players[
                         (filled(game[current_game[c]].board)
                            % game[current_game[c]].max_players) + 1].mark
           /\ ( /\ game'[current_game[c]].status = "RUNNING"
                /\ Len(game'[current_game[c]].players)
                     = Len(game[current_game[c]].players) )
              => game'[current_game[c]].turn_index
                   = (game[current_game[c]].turn_index + 1)
                       % Len(game[current_game[c]].players)
    ]_vars

\* ------------------------------------------------ check_winner_3_in_row
\* The function applied to boards of its own: every 3x3 board of two marks,
\* and every 4x4 board of two marks that holds up to MaxMarks marks.  The
\* boards are built one mark at a time, cell after cell in row-major order
\* with any mark in any cell, so they include boards no match reaches.
InitWin ==
  /\ pc = [c \in Conns |-> "new"]
  /\ name_registered = [c \in Conns |-> FALSE]
  /\ client_name = [c \in Conns |-> <<>>]
  /\ current_game = [c \in Conns |-> NoGame]
  /\ player = [c \in Conns |-> "None"]
  /\ active_names = {}
  /\ games = {}
  /\ game = <<>>
  /\ sent = <<>>
  /\ last = NoOp
  /\ lossy = TRUE
  /\ ends = [c \in Conns |-> [gid \in GameIds |-> 0]]
  /\ listing = NoListing
  /\ pending = {}
  /\ writes = NoWrites
  /\ trace = <<>>
  /\ begun = [c \in Conns |-> NoPart]
  /\ todo = [c \in Conns |-> <<>>]
  /\ holder = [l \in Locks |-> NoWorker]
  /\ looked = [c \in Conns |-> NoGame]
  /\ \E n \in {3, 4} :
       probe = [board |-> [r \in 0..(n - 1) |-> [c \in 0..(n - 1) |-> EMPTY]],
                winner |-> "None", at |-> 0]
  /\ BUFFERS = <<>>
  /\ conn_id = [c \in Conns |-> NoId]
  /\ wire = [c \in Conns |-> NoBytes]
  /\ handled = [c \in Conns |-> <<>>]

\* one more mark on the board, and check_winner_3_in_row called on the result
Probe(r, c, m) ==
  /\ in_bounds(Cardinality(DOMAIN probe.board), r, c)
  /\ r * Cardinality(DOMAIN probe.board) + c >= probe.at
  /\ Cardinality(DOMAIN probe.board) = 4 => filled(probe.board) < MaxMarks
  /\ probe' = [board |-> [probe.board EXCEPT ![r][c] = m],
               winner |-> check_winner_3_in_row([probe.board EXCEPT ![r][c] = m]),
               at |-> r * Cardinality(DOMAIN probe.board) + c + 1]
  /\ UNCHANGED <<progvars, todo, holder, looked, bufvars>>

NextWin == \E r \in 0..3, c \in 0..3, m \in {"X", "O"} : Probe(r, c, m)

SpecWin == InitWin /\ [][NextWin]_vars

\* the lines of a board, as <<i, d>>: three consecutive cells that hold one
\* mark, from cell i (row-major index) to the right (d = 1), down (2),
\* down-right (3) or down-left (4)
WinLines(board, n) ==
  { ld \in (0..(n * n - 1)) \X (1..4) :
      /\ board[ld[1] \div n][ld[1] % n] # EMPTY
      /\ \A k \in 0..2 :
           /\ in_bounds(n, (ld[1] \div n) + k * (IF ld[2] = 1 THEN 0 ELSE 1),
                           (ld[1] % n) + k * (CASE ld[2] = 1 -> 1 [] ld[2] = 2 -> 0
                                                [] ld[2] = 3 -> 1 [] OTHER -> -1))
           /\ board[(ld[1] \div n) + k * (IF ld[2] = 1 THEN 0 ELSE 1)]
                    [(ld[1] % n) + k * (CASE ld[2] = 1 -> 1 [] ld[2] = 2 -> 0
                                          [] ld[2] = 3 -> 1 [] OTHER -> -1)]
                = board[ld[1] \div n][ld[1] % n] }

\* the mark of a line
LineMark(board, n, ld) == board[ld[1] \div n][ld[1] % n]

\* ld is found before o: earlier cell, or same cell and earlier direction
FoundBefore(ld, o) == ld[1] < o[1] \/ (ld[1] = o[1] /\ ld[2] <= o[2])

\* ---------------------------------------------------------------- C24
\* C24: check_winner_3_in_row returns a mark M only if the board holds three
\* consecutive cells of M in a row, a column or a diagonal; it returns none
\* exactly when the board holds no such line; and when it holds several, the
\* result is the mark of the line found first, cells scanned row-major and
\* directions in the order right, down, down-right, down-left.
C24_WinnerIffLine ==
  LET L == WinLines(probe.board, Cardinality(DOMAIN probe.board))
  IN /\ probe.winner = "None" <=> L = {}
     /\ \A ld \in L :
          (\A o \in L : FoundBefore(ld, o))
          => probe.winner = LineMark(probe.board, Cardinality(DOMAIN probe.board), ld)

\* a 3x3 board with a line of each mark: the line of O is found first, and
\* O is the result
C24_Witness ==
  /\ Cardinality(DOMAIN probe.board) = 3
  /\ probe.winner = "O"
  /\ \E ld \in WinLines(probe.board, 3) :
       /\ LineMark(probe.board, 3, ld) = "O"
       /\ \A o \in WinLines(probe.board, 3) : FoundBefore(ld, o)
  /\ \E o \in WinLines(probe.board, 3) : LineMark(probe.board, 3, o) = "X"

\* ---------------------------------------------------------------- C25
\* C25: when LEAVE or the finally block runs for a connection that is no
\* longer in the player list of its match (it was removed as a dead
\* connection) and the match still has players, the `with g.lock:` block of
\* the routine leaves the status, players, board and turn_index of the match
\* as they are and sends no message (the OK that answers a LEAVE is sent
\* after the block).
C25_DepartIdempotent ==
  [][ \A c \in Conns :
        ( /\ last'.op \in {"LEAVE_LOCKED", "FINALLY_LOCKED"}
          /\ last'.conn = c
          /\ current_game[c] # NoGame
          /\ player[c] # "None"
          /\ c \notin PlayerConns(game[current_game[c]])
          /\ Len(game[current_game[c]].players) >= 1 )
        => /\ current_game[c] \in DOMAIN game'
           /\ game'[current_game[c]] = game[current_game[c]]
           /\ sent' = <<>>
    ]_vars

\* ---------------------------------------------------------------- C26
\* the players a JOIN or the `with g.lock:` block of a MOVE by c took off
\* the player list of its match:
\* those the sends of its broadcast failed for
FailedPlayers(c) ==
  (PlayerConns(game[current_game'[c]]) \cup {c})
     \ PlayerConns(game'[current_game'[c]])

\* C26: when sends of the broadcast of a JOIN or MOVE fail, every player of
\* the match is still sent the broadcast, and at the end of the block the
\* failed players are off the player list, the match is FINISHED, each
\* remaining player has been sent one END, and the match is deregistered if
\* no player remains.
C26_DeadHandledAsDisconnect ==
  [][ \A c \in Conns :
        ( /\ last'.op \in {"JOIN", "MOVE_LOCKED"}
          /\ last'.conn = c
          /\ sent' # <<>>
          /\ sent'[1].body.type # "ERR"
          /\ pc'[c] \in {"loop", "move"}
          /\ FailedPlayers(c) # {} )
        => /\ \A p \in PlayerConns(game[current_game'[c]]) \cup {c} :
                \E i \in 1..Len(sent') :
                  /\ sent'[i].to = p
                  /\ sent'[i].body.type \in {"START", "WAIT", "GAME_UPDATE", "END"}
           /\ game'[current_game'[c]].status = "FINISHED"
           /\ \A p \in PlayerConns(game'[current_game'[c]]) :
                CountEnds(sent', p, current_game'[c]) = 1
           /\ game'[current_game'[c]].players = <<>>
                => current_game'[c] \notin games'
    ]_vars

\* ------------------------------------------- JOIN beside the other workers
\* Two registered clients in the lobby and one two-player match, created by
\* the first client and not joined yet; JOIN runs in its two steps.
InitJoin ==
  /\ pc = [c \in Conns |-> IF c \in LobbyConns THEN "loop" ELSE "new"]
  /\ name_registered = [c \in Conns |-> c \in LobbyConns]
  /\ client_name = [c \in Conns |-> IF c \in LobbyConns THEN NameOf[c] ELSE <<>>]
  /\ current_game = [c \in Conns |-> NoGame]
  /\ player = [c \in Conns |-> "None"]
  /\ active_names = { NameOf[c] : c \in LobbyConns }
  /\ games = {1}
  /\ game = [k \in {1} |-> NewGame(k, 2, NameOf[k])]
  /\ sent = <<>>
  /\ last = NoOp
  /\ lossy = TRUE
  /\ ends = [c \in Conns |-> [gid \in GameIds |-> 0]]
  /\ listing = NoListing
  /\ pending = {}
  /\ writes = NoWrites
  /\ trace = <<>>
  /\ begun = [c \in Conns |-> NoPart]
  /\ todo = [c \in Conns |-> <<>>]
  /\ holder = [l \in Locks |-> NoWorker]
  /\ looked = [c \in Conns |-> NoGame]
  /\ probe = NoProbe
  /\ BUFFERS = <<>>
  /\ conn_id = [c \in Conns |-> NoId]
  /\ wire = [c \in Conns |-> NoBytes]
  /\ handled = [c \in Conns |-> <<>>]

NextJoin ==
  \/ Flush
  \/ \E c \in LobbyConns :
    \/ RecvEOF(c)
    \/ \E gid \in GameIdInputs : JoinLookup(c, gid, TRUE)
    \/ JoinLocked(c)
    \/ Leave(c)
    \/ LeaveTail(c)
    \/ \E rc \in FewMoveInputs : Move(c, rc[1], rc[2], TRUE, TRUE)
    \/ MoveTail(c)
    \/ Finally(c)
    \/ FinallyTail(c)
    \/ FinallyRelease(c)
    \/ FinallyClose(c)

SpecJoin == InitJoin /\ [][NextJoin]_vars

\* ---------------------------------------------------------------- C27
\* C27: in every reachable state every match that has at least one player
\* in its player list is in the match registry, also when a JOIN looked the
\* match up before it was deregistered and took its lock after.
C27_PlayersImplyRegistered ==
  \A gid \in DOMAIN game : game[gid].players # <<>> => gid \in games

\* ------------------------------------------------------ BUFFERS, recv_line
\* The byte streams of the clients and the receive buffers.  A byte is "\n"
\* or one character that stands for the text of a message: "Q" a QUIT
\* (break), "E" a message whose handler raises (the `except Exception`
\* around the loop), "L" a LIST and "U" a line that is not JSON or has an
\* unknown type (both answered, and the loop goes on unless the reply
\* raises).  A client sends its bytes and closes or resets its end;
\* conn.recv returns them in chunks of any size.
Payloads ==
  { <<>>, <<"L">>, <<"Q", "\n">>, <<"L", "\n", "Q", "\n">>,
    <<"Q", "\n", "L", "\n">>, <<"E", "\n", "L", "\n">>,
    <<"U", "\n", "L", "\n">> }

HasNewline(buf) == \E i \in 1..Len(buf) : buf[i] = "\n"

\* where buf.split(b"\n", 1) splits
FirstNewline(buf) ==
  CHOOSE i \in 1..Len(buf) : buf[i] = "\n" /\ \A j \in 1..(i - 1) : buf[j] # "\n"

\* the bytes sent and not yet returned by conn.recv
Pending(c) == SubSeq(wire[c].all, wire[c].rcvd + 1, Len(wire[c].all))

\* BUFFERS.get(key, b"")
buffer_of(key) == IF key \in DOMAIN BUFFERS THEN BUFFERS[key] ELSE <<>>

\* main: s.accept() returns a new socket object, whose id is that of no
\* socket object in existence, and the worker starts; the client has sent
\* `bytes`.  raised: the WELCOME send raises, which leaves the `try` block
\* before the loop is entered
AcceptConn(c, k, bytes, raised) ==
  /\ pc[c] = "new"
  /\ \A x \in Conns : conn_id[x] # k
  /\ conn_id' = [conn_id EXCEPT ![c] = k]
  /\ wire' = [wire EXCEPT ![c] = [all |-> bytes, rcvd |-> 0]]
  /\ pc' = [pc EXCEPT ![c] = IF raised THEN "exit" ELSE "loop"]
  /\ UNCHANGED <<name_registered, client_name, current_game, player,
                 active_names, games, game, sent, last, lossy, ends, listing,
                 pending, writes, trace, begun, todo, holder, looked,
                 probe, BUFFERS, handled>>

\* recv_line returns the line up to the first newline of buf and stores the
\* rest under the key; the worker handles the line (n: the bytes taken from
\* the socket; raised: the reply to the line raises)
Deliver(c, key, buf, n, raised) ==
  /\ BUFFERS' = [k \in DOMAIN BUFFERS \cup {key} |->
                   IF k = key THEN SubSeq(buf, FirstNewline(buf) + 1, Len(buf))
                   ELSE BUFFERS[k]]
  /\ wire' = [wire EXCEPT ![c].rcvd = @ + n]
  /\ handled' = [handled EXCEPT ![c] =
                   Append(@, SubSeq(buf, 1, FirstNewline(buf) - 1))]
  /\ pc' = [pc EXCEPT ![c] =
              IF \/ SubSeq(buf, 1, FirstNewline(buf) - 1) \in { <<"Q">>, <<"E">> }
                 \/ raised
              THEN "exit" ELSE "loop"]

\* one turn of the worker's loop: recv_line, then the handler of the line.
\* With no newline in the buffer it calls conn.recv until one arrives (n
\* bytes in all, in chunks of any size); b"" from conn.recv (the peer closed)
\* pops the buffer entry and ends the loop.  reset: a call of conn.recv
\* raises (the peer reset the connection) after n bytes without a newline
\* were received; the loop is left with the buffer entry as it was.
RecvLine(c, n, raised, reset) ==
  /\ pc[c] = "loop"
  /\ conn_id[c] # NoId
  /\ IF HasNewline(buffer_of(conn_id[c]))
     THEN /\ n = 0
          /\ ~reset
          /\ Deliver(c, conn_id[c], buffer_of(conn_id[c]), 0, raised)
     ELSE IF reset
     THEN /\ ~raised
          /\ n <= Len(Pending(c))
          /\ ~HasNewline(SubSeq(Pending(c), 1, n))
          /\ wire' = [wire EXCEPT ![c].rcvd = @ + n]
          /\ pc' = [pc EXCEPT ![c] = "exit"]
          /\ UNCHANGED <<BUFFERS, handled>>
     ELSE IF HasNewline(Pending(c))
     THEN /\ n >= FirstNewline(Pending(c))
          /\ n <= Len(Pending(c))
          /\ Deliver(c, conn_id[c],
                     buffer_of(conn_id[c]) \o SubSeq(Pending(c), 1, n), n, raised)
     ELSE /\ n = Len(Pending(c))
          /\ ~raised
          /\ BUFFERS' = [k \in DOMAIN BUFFERS \ {conn_id[c]} |-> BUFFERS[k]]
          /\ wire' = [wire EXCEPT ![c].rcvd = @ + n]
          /\ pc' = [pc EXCEPT ![c] = "exit"]
          /\ handled' = handled
  /\ UNCHANGED <<name_registered, client_name, current_game, player,
                 active_names, games, game, sent, last, lossy, ends, listing,
                 pending, writes, trace, begun, todo, holder, looked,
                 probe, conn_id>>

\* the finally block and the end of the thread: the socket is closed and the
\* socket object freed; nothing touches BUFFERS
ThreadExit(c) ==
  /\ pc[c] = "exit"
  /\ conn_id[c] # NoId
  /\ pc' = [pc EXCEPT ![c] = "closed"]
  /\ conn_id' = [conn_id EXCEPT ![c] = NoId]
  /\ UNCHANGED <<name_registered, client_name, current_game, player,
                 active_names, games, game, sent, last, lossy, ends, listing,
                 pending, writes, trace, begun, todo, holder, looked,
                 probe, BUFFERS, wire, handled>>

NextBuf ==
  \E c \in Conns :
    \/ \E k \in Ids, bytes \in Payloads, raised \in BOOLEAN :
         AcceptConn(c, k, bytes, raised)
    \/ \E n \in 0..4, raised \in BOOLEAN : RecvLine(c, n, raised, FALSE)
    \/ \E n \in 0..4 : RecvLine(c, n, FALSE, TRUE)
    \/ ThreadExit(c)

SpecBuf == Init /\ [][NextBuf]_vars

\* the complete lines of a byte stream, in order
RECURSIVE LinesOf(_)
LinesOf(bytes) ==
  IF ~HasNewline(bytes) THEN <<>>
  ELSE <<SubSeq(bytes, 1, FirstNewline(bytes) - 1)>>
         \o LinesOf(SubSeq(bytes, FirstNewline(bytes) + 1, Len(bytes)))

\* ---------------------------------------------------------------- C28
\* C28: the lines the server handles for a connection are lines that
\* connection sent, in the order it sent them, and a buffer entry exists
\* only for a connection that is still open: it is discarded on QUIT, on a
\* handler error and on peer close, so a later connection with the same
\* buffer key starts with an empty buffer.
C28_BufferPerConnection ==
  /\ \A c \in Conns :
       /\ Len(handled[c]) <= Len(LinesOf(wire[c].all))
       /\ handled[c] = SubSeq(LinesOf(wire[c].all), 1, Len(handled[c]))
  /\ \A k \in DOMAIN BUFFERS : \E c \in Conns : conn_id[c] = k

====
